---- MODULE Spec2Model ----
(***************************************************************************)
(* Calendar sync orchestrator and enrichment pipeline.                     *)
(*                                                                         *)
(*   syncCalendarEventsAction   src/unnamed/part_007                       *)
(*   processExternalLinkAction  src/unnamed/part_006                       *)
(*   parseEventDetailsAction, parseSingleChunk, chunkText,                 *)
(*   deduplicateSubEvents, handleParsedSchedule                            *)
(*                              src/actions/ai/parsing-actions.ts          *)
(*   getEventByIdAction, updateEventAction   src/db/event-actions.ts       *)
(*   createSubEventAction       src/db/sub-events-actions.ts               *)
(*                                                                         *)
(* Every `await` of the code is one action of a run: the action is the     *)
(* completion of the awaited operation followed by the synchronous code up *)
(* to the next `await`.  run[r].pc names the operation run r is awaiting.  *)
(*                                                                         *)
(* Text values (locations, names, time tokens) are sequences of one-char   *)
(* strings so that trim and the " -- " join are computed.  A scraped page  *)
(* is represented by its length; a chunk by the slice offsets [from, to).  *)
(***************************************************************************)
EXTENDS Integers, Sequences, FiniteSets, TLC

\* ------------------------------------------------------------------ bounds
MaxRuns == 2      \* invocations of syncCalendarEventsAction
MaxItems == 2     \* provider events in one response
MaxChunks == 2    \* chunks of the longest scraped page
MaxDbFaults == 1  \* database operations that fail
MaxTextLen == 5   \* characters of a text given to chunkText on its own
MaxChunkLen == 3  \* the maxLen given to chunkText on its own
MaxListLen == 3   \* candidates in a list given to deduplicateSubEvents on its own

\* --------------------------------------------------------- program constant
MAX_CHARS_PER_CHUNK == 100000

Runs == 1..MaxRuns
UserId == "u1"

\* ------------------------------------------------------------------ values
NULL == "null"                 \* a null id, link or title
NullStr == <<"null">>          \* a null / undefined text value
NoId == 0                      \* no row id

IsText(s) == s # NullStr

\* String.prototype.trim on a text value
RECURSIVE TrimLeft(_)
TrimLeft(s) == IF s # <<>> /\ Head(s) = " " THEN TrimLeft(Tail(s)) ELSE s

RECURSIVE TrimRight(_)
TrimRight(s) ==
    IF s # <<>> /\ s[Len(s)] = " " THEN TrimRight(SubSeq(s, 1, Len(s) - 1)) ELSE s

Trim(s) == TrimRight(TrimLeft(s))

\* x?.trim() || ""
TrimOrEmpty(s) == IF IsText(s) THEN Trim(s) ELSE <<>>

\* x?.trim() || null
TrimOrNull(s) == IF TrimOrEmpty(s) = <<>> THEN NullStr ELSE TrimOrEmpty(s)

LowerChar(c) ==
    CASE c = "A" -> "a" [] c = "B" -> "b" [] c = "V" -> "v" [] c = "W" -> "w"
      [] c = "H" -> "h" [] c = "K" -> "k" [] c = "R" -> "r" [] OTHER -> c

ToLowerCase(s) == [i \in 1..Len(s) |-> LowerChar(s[i])]

\* ------------------------------------------------------- provider responses
Links == {"L1", "L2"}          \* tokens matching /(https?:\/\/[^\s]+)/i

\* extractFirstLink: the first token of the description that is a link
RECURSIVE extractFirstLink(_)
extractFirstLink(text) ==
    IF text = <<>> THEN NULL
    ELSE IF Head(text) \in Links THEN Head(text)
    ELSE extractFirstLink(Tail(text))

Descriptions == { <<>>, <<"see", "L1">>, <<"L2", "L1">> }

\* start of a provider event: a timestamp (hours since the epoch, UTC), a bare
\* date (day number) or nothing
StartOf(k) ==
    IF k = 1 THEN [kind |-> "dateTime", v |-> 30] ELSE [kind |-> "date", v |-> k]

\* offset of the server's local time zone from UTC, in hours
LocalOffsetHours == 0

HoursPerDay == 24

\* lines 84-104 on a server whose local time is offset hours ahead of UTC:
\* dt.setHours(0,0,0,0) is midnight in local time, toISOString() writes the
\* instant in UTC, and the DATE column keeps the day of that string
DateOnlyAt(start, offset) ==
    CASE start.kind = "dateTime" ->
            LET local == start.v + offset
                midnight == (local - (local % HoursPerDay)) - offset
            IN  midnight \div HoursPerDay
      [] start.kind = "date" -> start.v
      [] OTHER -> -1

DateOnly(start) == DateOnlyAt(start, LocalOffsetHours)

\* the variants of the k-th provider event: id k, with or without a summary
ItemVariants(k) ==
    { [id |-> k, summary |-> "T", description |-> d,
       location |-> IF k = 1 THEN <<"H">> ELSE NullStr, start |-> StartOf(k)] :
          d \in IF k = 1 THEN Descriptions ELSE {<<"see", "L1">>} }
    \cup { [id |-> k, summary |-> "", description |-> <<>>,
            location |-> NullStr, start |-> StartOf(k)] }

\* responses: the provider's events k..n in start order, each present or not
RECURSIVE ResponsesOver(_, _)
ResponsesOver(k, n) ==
    IF k > n THEN { <<>> }
    ELSE LET rest == ResponsesOver(k + 1, n)
         IN  rest \cup { <<it>> \o tl : it \in ItemVariants(k), tl \in rest }

Responses == ResponsesOver(1, MaxItems)

\* ------------------------------------------------------- extraction results
Cand(title, speaker, st, en, loc) ==
    [title |-> title, speaker |-> speaker, startTime |-> st, endTime |-> en,
     speakerPosition |-> NullStr, speakerCompany |-> NullStr, location |-> loc]

cAnn == Cand(<<"K">>, <<"A">>, <<"9">>, <<"1">>, <<"R">>)
cAnnDup == Cand(<<"W">>, <<" ", "a">>, <<"9">>, <<"1">>, NullStr)
cBob == Cand(NullStr, <<"B">>, <<>>, NullStr, <<" ">>)

\* what JSON.parse can return for a chunk
Schedules ==
    { [location |-> <<" ", "V">>, subEvents |-> <<cAnn, cBob>>],
      [location |-> NullStr, subEvents |-> <<cAnnDup>>],
      [location |-> <<" ">>, subEvents |-> <<>>] }

NoSchedule == [location |-> NullStr, subEvents |-> <<>>]

\* lengths of the pages a scrape can return: at the threshold, and one
\* character into each further chunk
PageLens ==
    { MAX_CHARS_PER_CHUNK } \cup
    { (k - 1) * MAX_CHARS_PER_CHUNK + 1 : k \in 2..MaxChunks }

\* variant: the next chunk starts one character late
RECURSIVE chunkFrom_SkipsChar(_, _, _)
chunkFrom_SkipsChar(start, len, maxLen) ==
    IF start < len
    THEN LET end == start + maxLen
         IN  << [from |-> start, to |-> IF end < len THEN end ELSE len] >>
             \o chunkFrom_SkipsChar(end + 1, len, maxLen)
    ELSE <<>>

\* chunkText on a page of length len: text.slice(start, end) as [from, to)
RECURSIVE chunkFrom(_, _, _)
chunkFrom(start, len, maxLen) ==
    IF start < len
    THEN LET end == start + maxLen
         IN  << [from |-> start, to |-> IF end < len THEN end ELSE len] >>
             \o chunkFrom(end, len, maxLen)
    ELSE <<>>

chunkText(len, maxLen) == chunkFrom(0, len, maxLen)

\* String.prototype.slice(from, to) on a text value, 0 <= from <= to <= length
Slice(text, from, to) == SubSeq(text, from + 1, to)

\* chunkText on the text itself: the slices at the offsets of chunkText
ChunkStrings(text, maxLen) ==
    LET offsets == chunkText(Len(text), maxLen)
    IN  [i \in 1..Len(offsets) |-> Slice(text, offsets[i].from, offsets[i].to)]

\* deduplicateSubEvents (server side): first candidate of each key wins.
\* lines 163-167: the key is the string `${speaker}||${start}||${end}`
DedupKey(se) ==
    ToLowerCase(TrimOrEmpty(se.speaker)) \o <<"|", "|">>
    \o ToLowerCase(TrimOrEmpty(se.startTime)) \o <<"|", "|">>
    \o ToLowerCase(TrimOrEmpty(se.endTime))

\* variant: the key of a kept candidate is not remembered
RECURSIVE DedupFrom_Forgets(_, _)
DedupFrom_Forgets(list, seenKeys) ==
    IF list = <<>> THEN <<>>
    ELSE LET se == Head(list)
         IN  IF DedupKey(se) \in seenKeys
             THEN DedupFrom_Forgets(Tail(list), seenKeys)
             ELSE <<se>> \o DedupFrom_Forgets(Tail(list), seenKeys)

RECURSIVE DedupFrom(_, _)
DedupFrom(list, seenKeys) ==
    IF list = <<>> THEN <<>>
    ELSE LET se == Head(list)
         IN  IF DedupKey(se) \in seenKeys
             THEN DedupFrom(Tail(list), seenKeys)
             ELSE <<se>> \o DedupFrom(Tail(list), seenKeys \cup {DedupKey(se)})

deduplicateSubEvents(list) == DedupFrom(list, {})


\* ------------------------------------------------------------------- state
VARIABLES
    profile,      \* the user's row of profilesTable
    events,       \* rows of eventsTable
    subEvents,    \* rows of subEventsTable, in insertion order
    run,          \* run[r]: the locals of run r and the operation it awaits
    enrichLog,    \* history: the invocations of processExternalLinkAction
    gptLog,       \* history: gptLog[r], the parseSingleChunk calls of the
                  \*          enrichment run r is in (or was last in)
    trail,        \* history: trail[r], how far run r got and what it wrote
    dbFaults,     \* history: the number of failed database operations so far
    call          \* one application of a function of the program to an input
                  \* (used where a function is checked on its own)

vars == << profile, events, subEvents, run, enrichLog, gptLog, trail, dbFaults,
           call >>

\* googleTokenExpires is null
NoExpiry == -1

\* rows of profilesTable the user can have; googleTokenExpires is a clock value
Profiles ==
    { [exists |-> FALSE, googleAccessToken |-> NULL, googleRefreshToken |-> "",
       googleTokenExpires |-> 5],
      [exists |-> TRUE, googleAccessToken |-> NULL, googleRefreshToken |-> "",
       googleTokenExpires |-> 5],
      [exists |-> TRUE, googleAccessToken |-> "at", googleRefreshToken |-> "",
       googleTokenExpires |-> 3],
      [exists |-> TRUE, googleAccessToken |-> "at", googleRefreshToken |-> "rt",
       googleTokenExpires |-> 5],
      [exists |-> TRUE, googleAccessToken |-> "at", googleRefreshToken |-> "rt",
       googleTokenExpires |-> NoExpiry] }

NoRow ==
    [id |-> NoId, userId |-> NULL, calendarEventId |-> 0, eventTitle |-> NULL,
     startTime |-> -1, location |-> NullStr, externalLink |-> NULL]

Ok(message) == [isSuccess |-> TRUE, message |-> message]
Fail(message) == [isSuccess |-> FALSE, message |-> message]
NoResult == [isSuccess |-> FALSE, message |-> ""]

IdleRun ==
    [pc |-> "idle", items |-> <<>>, idx |-> 0, existing |-> NoRow,
     eventId |-> NoId, page |-> 0, ci |-> 0, fullSubEvents |-> <<>>,
     eventLocation |-> NullStr, parsed |-> NoSchedule, parentLoc |-> <<>>,
     k |-> 0, result |-> NoResult]

NoTrail == [stage |-> "none", wrote |-> FALSE, enriched |-> FALSE]

NoCall == [op |-> "none", arg |-> <<>>, done |-> FALSE, out |-> <<>>]

Init ==
    /\ profile \in Profiles
    /\ events = {}
    /\ subEvents = <<>>
    /\ run = [r \in Runs |-> IdleRun]
    /\ enrichLog = <<>>
    /\ gptLog = [r \in Runs |-> <<>>]
    /\ trail = [r \in Runs |-> NoTrail]
    /\ dbFaults = 0
    /\ call = NoCall

\* ------------------------------------------------- syncCalendarEventsAction
Active(r) == run[r].pc \notin {"idle", "done"}

\* return from syncCalendarEventsAction; the locals die with the call (the
\* response is kept as history)
Return(rec, res) == [IdleRun EXCEPT !.pc = "done", !.result = res, !.items = rec.items]

\* line 79: if (!item.id || !item.summary) continue
Skipped(item) == item.id = 0 \/ item.summary = ""

\* the for-of loop of line 78: the next item that is not skipped, after i
RECURSIVE NextIdx(_, _)
NextIdx(items, i) ==
    IF i + 1 > Len(items) THEN Len(items) + 1
    ELSE IF Skipped(items[i + 1]) THEN NextIdx(items, i + 1)
    ELSE i + 1

\* lines 78-116 and 162-166: go on with the next item (its row lookup is the
\* next await), or leave the loop and report success
Continue(rec) ==
    LET j == NextIdx(rec.items, rec.idx)
    IN  IF j <= Len(rec.items)
        THEN [IdleRun EXCEPT !.pc = "lookup", !.items = rec.items, !.idx = j]
        ELSE Return(rec, Ok("Google Calendar events synced"))

\* lines 81-108
\* variant: the provider's location is not stored
EventData_NoLocation(item) ==
    [userId |-> UserId, eventTitle |-> item.summary, calendarEventId |-> item.id,
     startTime |-> DateOnly(item.start), location |-> NullStr,
     externalLink |-> extractFirstLink(item.description)]

EventData(item) ==
    [userId |-> UserId, eventTitle |-> item.summary, calendarEventId |-> item.id,
     startTime |-> DateOnly(item.start),
     location |-> IF IsText(item.location) /\ item.location # <<>>
                  THEN item.location ELSE NullStr,
     externalLink |-> extractFirstLink(item.description)]

\* variant: the stored link is not compared
LinkIsNewOrChanged_NoCompare(existing, externalLink) == externalLink # NULL

\* variant: a removed link counts as a change
LinkIsNewOrChanged_NoNullCheck(existing, externalLink) ==
    IF existing.id # NoId
    THEN externalLink # existing.externalLink
    ELSE externalLink # NULL

\* variant: no second enrichment of an event for a link already enriched
LinkIsNewOrChanged_Guarded(existing, externalLink) ==
    /\ externalLink # NULL
    /\ existing.id # NoId => externalLink # existing.externalLink
    /\ ~\E i \in 1..Len(enrichLog) :
            enrichLog[i].eventId = existing.id /\ enrichLog[i].link = externalLink

\* lines 121-124 and 139
LinkIsNewOrChanged(existing, externalLink) ==
    IF existing.id # NoId
    THEN externalLink # NULL /\ externalLink # existing.externalLink
    ELSE externalLink # NULL

\* variant: no unique index
UniqueViolation_None(rows, data) == FALSE

\* the unique index events_user_calendar_id_unique
UniqueViolation(rows, data) ==
    \E e \in rows : e.userId = data.userId /\ e.calendarEventId = data.calendarEventId

\* variant: processExternalLinkAction is not awaited
AfterUpsert_NoAwait(rec, finalEventId, linkIsNewOrChanged) == Continue(rec)

\* line 144 and the await of line 146
AfterUpsert(rec, finalEventId, linkIsNewOrChanged) ==
    IF finalEventId # NoId /\ linkIsNewOrChanged
    THEN [rec EXCEPT !.pc = "procGet", !.eventId = finalEventId, !.existing = NoRow]
    ELSE Continue(rec)

\* variant: a failed enrichment reaches the catch of line 167
AfterEnrichFailure_Abort(rec) ==
    Return(rec, Fail("Failed to sync Google Calendar events"))

\* lines 147-158: a failed or throwing enrichment is logged; the loop goes on
AfterEnrichFailure(rec) == Continue(rec)

Mark(r, status) ==
    [i \in 1..Len(enrichLog) |->
        IF enrichLog[i].run = r /\ enrichLog[i].status = "running"
        THEN [enrichLog[i] EXCEPT !.status = status]
        ELSE enrichLog[i]]

EnrichFailed(r) ==
    /\ run' = [run EXCEPT ![r] = AfterEnrichFailure(run[r])]
    /\ enrichLog' = Mark(r, "failed")

EnrichSucceeded(r) ==
    /\ run' = [run EXCEPT ![r] = Continue(run[r])]
    /\ enrichLog' = Mark(r, "ok")

\* a call of syncCalendarEventsAction: the profile query of line 22 is issued
Start(r) ==
    /\ run[r].pc = "idle"
    /\ \A q \in Runs : q < r => run[q].pc # "idle"
    /\ run' = [run EXCEPT ![r].pc = "tokenCheck"]
    /\ trail' = [trail EXCEPT ![r].stage = "tokenCheck"]
    /\ gptLog' = [q \in Runs |-> IF Active(q) THEN gptLog[q] ELSE <<>>]
    /\ UNCHANGED << profile, events, subEvents, enrichLog, dbFaults, call >>

\* a run starts only when no other run is in progress
StartSerial(r) ==
    /\ \A q \in Runs : ~Active(q)
    /\ Start(r)

\* variant: the access token is not checked
TokenCheckOutcome_NoTokenCheck(userProfile, now) ==
    IF ~userProfile.exists THEN "noProfile"
    ELSE IF userProfile.googleTokenExpires # NoExpiry
            /\ userProfile.googleTokenExpires < now THEN "refresh"
    ELSE "fetch"

\* lines 25-44: where the token check leads
TokenCheckOutcome(userProfile, now) ==
    IF ~userProfile.exists THEN "noProfile"
    ELSE IF userProfile.googleAccessToken = NULL THEN "noToken"
    ELSE IF userProfile.googleTokenExpires # NoExpiry
            /\ userProfile.googleTokenExpires < now THEN "refresh"
    ELSE "fetch"

\* lines 22-55, up to the await of line 45 or of line 65
TokenCheck(r) ==
    /\ run[r].pc = "tokenCheck"
    /\ \E now \in {4, 6} :
        LET outcome == TokenCheckOutcome(profile, now)
        IN  /\ trail' = [trail EXCEPT ![r].stage = outcome]
            /\ run' = [run EXCEPT ![r] =
                  CASE outcome = "noProfile" -> Return(@, Fail("No profile found for user"))
                    [] outcome = "noToken" -> Return(@, Fail("No Google token found"))
                    [] OTHER -> [@ EXCEPT !.pc = outcome]]
    /\ UNCHANGED << profile, events, subEvents, enrichLog, gptLog, dbFaults, call >>

\* refreshGoogleToken (lines 218-266): null without a refresh token, else
\* whatever the token endpoint answers
RefreshOutcomes(refreshToken) == IF refreshToken = "" THEN {NULL} ELSE {NULL, "at2"}

\* lines 45-55
TokenRefresh(r) ==
    /\ run[r].pc = "refresh"
    /\ \E newToken \in RefreshOutcomes(profile.googleRefreshToken) :
        IF newToken = NULL
        THEN /\ run' = [run EXCEPT ![r] =
                            Return(@, Fail("Failed to refresh expired Google token"))]
             /\ trail' = [trail EXCEPT ![r].stage = "refreshFailed"]
        ELSE \* line 54: the new token stays in the local accessToken
             /\ run' = [run EXCEPT ![r].pc = "fetch"]
             /\ trail' = [trail EXCEPT ![r].stage = "fetch"]
    /\ UNCHANGED << profile, events, subEvents, enrichLog, gptLog, dbFaults, call >>

\* lines 65-75: the provider call failed, or its answer holds no items array
FetchFailed(r) ==
    /\ run[r].pc = "fetch"
    /\ run' = [run EXCEPT ![r] = Return(@, Fail("No valid events array received"))]
    /\ trail' = [trail EXCEPT ![r].stage = "fetchFailed"]
    /\ UNCHANGED << profile, events, subEvents, enrichLog, gptLog, dbFaults, call >>

\* lines 65-116: the provider answered; the loop reaches its first lookup
Fetch(r, env) ==
    /\ run[r].pc = "fetch"
    /\ \E items \in env.responses :
        run' = [run EXCEPT ![r] = Continue([@ EXCEPT !.items = items, !.idx = 0])]
    /\ trail' = [trail EXCEPT ![r].stage = "loop"]
    /\ UNCHANGED << profile, events, subEvents, enrichLog, gptLog, dbFaults, call >>

\* a database operation succeeds or fails
DbOutcomes(env) == IF dbFaults < env.maxDbFaults THEN BOOLEAN ELSE {TRUE}

Faulted(dbOk) == dbFaults' = IF dbOk THEN dbFaults ELSE dbFaults + 1

\* lines 167-173: a query of the loop threw; the catch reports failure
LoopThrew(r) ==
    /\ run' = [run EXCEPT ![r] =
                   Return(@, Fail("Failed to sync Google Calendar events"))]
    /\ trail' = [trail EXCEPT ![r].stage = "loopFailed"]

\* lines 111-116: db.query.events.findFirst
Lookup(r, env) ==
    /\ run[r].pc = "lookup"
    /\ \E dbOk \in DbOutcomes(env) :
        /\ Faulted(dbOk)
        /\ IF ~dbOk
           THEN LoopThrew(r)
           ELSE LET id == run[r].items[run[r].idx].id
                    found == { e \in events :
                                 e.userId = UserId /\ e.calendarEventId = id }
                IN  /\ \E row \in IF found = {} THEN {NoRow} ELSE found :
                        run' = [run EXCEPT ![r].pc = "upsert", ![r].existing = row]
                    /\ UNCHANGED trail
    /\ gptLog' = [gptLog EXCEPT ![r] = <<>>]
    /\ UNCHANGED << profile, events, subEvents, enrichLog, call >>

LogEntry(r, rec, id, data) ==
    [run |-> r, idx |-> rec.idx, calendarEventId |-> data.calendarEventId,
     eventId |-> id, link |-> data.externalLink, rowRead |-> rec.existing.id,
     status |-> "running", subEvents |-> <<>>, inserted |-> 0]

\* lines 121-134: the update of the row the lookup found
UpsertUpdate(r, env) ==
    /\ run[r].pc = "upsert"
    /\ run[r].existing.id # NoId
    /\ LET rec == run[r]
           data == EventData(rec.items[rec.idx])
           changed == LinkIsNewOrChanged(rec.existing, data.externalLink)
           hit == { e \in events : e.id = rec.existing.id }
           updated == { [id |-> e.id] @@ data : e \in hit }
           finalEventId == IF updated = {} THEN NoId ELSE rec.existing.id
           next == AfterUpsert(rec, finalEventId, changed)
       IN  \E dbOk \in DbOutcomes(env) :
            /\ Faulted(dbOk)
            /\ IF ~dbOk
               THEN LoopThrew(r) /\ UNCHANGED << events, enrichLog >>
               ELSE /\ events' = (events \ hit) \cup updated
                    /\ run' = [run EXCEPT ![r] = next]
                    /\ enrichLog' =
                          IF finalEventId # NoId /\ changed
                          THEN Append(enrichLog, LogEntry(r, rec, finalEventId, data))
                          ELSE enrichLog
                    /\ trail' = [trail EXCEPT
                          ![r].wrote = TRUE,
                          ![r].enriched = @ \/ (finalEventId # NoId /\ changed)]
    /\ UNCHANGED << profile, subEvents, gptLog, call >>

\* lines 136-140: the insert of a new row
UpsertInsert(r, env) ==
    /\ run[r].pc = "upsert"
    /\ run[r].existing.id = NoId
    /\ LET rec == run[r]
           data == EventData(rec.items[rec.idx])
           newEvent == [id |-> Cardinality(events) + 1] @@ data
           changed == LinkIsNewOrChanged(rec.existing, newEvent.externalLink)
       IN  \E dbOk \in DbOutcomes(env) :
            /\ Faulted(dbOk)
            /\ IF ~dbOk \/ UniqueViolation(events, data)
               THEN \* the insert throws
                    LoopThrew(r) /\ UNCHANGED << events, enrichLog >>
               ELSE /\ events' = events \cup {newEvent}
                    /\ run' = [run EXCEPT ![r] = AfterUpsert(rec, newEvent.id, changed)]
                    /\ enrichLog' =
                          IF changed
                          THEN Append(enrichLog, LogEntry(r, rec, newEvent.id, data))
                          ELSE enrichLog
                    /\ trail' = [trail EXCEPT ![r].wrote = TRUE,
                                              ![r].enriched = @ \/ changed]
    /\ UNCHANGED << profile, subEvents, gptLog, call >>


\* ------------------------------------------------ processExternalLinkAction
\* getEventByIdAction: the row with this id, or NoRow when there is none or
\* the query fails (both give isSuccess = false)
GetEventById(rows, eventId, dbOk) ==
    LET hit == { e \in rows : e.id = eventId }
    IN  IF dbOk /\ hit # {} THEN CHOOSE e \in hit : TRUE ELSE NoRow

\* part_006 lines 38-55
ProcGet(r, env) ==
    /\ run[r].pc = "procGet"
    /\ \E dbOk \in DbOutcomes(env) :
        LET event == GetEventById(events, run[r].eventId, dbOk)
        IN  /\ Faulted(dbOk)
            /\ IF event.id = NoId \/ event.externalLink = NULL
               THEN EnrichFailed(r)
               ELSE /\ run' = [run EXCEPT ![r].pc = "scrape"]
                    /\ UNCHANGED enrichLog
    /\ UNCHANGED << profile, events, subEvents, gptLog, trail, call >>

\* part_006 lines 58-69: scrapePageContent throws (non-2xx, network error,
\* timeout) or returns the page
ScrapeFailed(r) ==
    /\ run[r].pc = "scrape"
    /\ EnrichFailed(r)
    /\ UNCHANGED << profile, events, subEvents, gptLog, trail, dbFaults, call >>

Scrape(r, env) ==
    /\ run[r].pc = "scrape"
    /\ \E len \in env.pageLens :
        run' = [run EXCEPT ![r].pc = "gpt", ![r].page = len, ![r].ci = 0]
    /\ gptLog' = [gptLog EXCEPT ![r] = <<>>]
    /\ UNCHANGED << profile, events, subEvents, enrichLog, trail, dbFaults, call >>

\* --------------------------------------------------- parseEventDetailsAction
SingleChunk(len) == len <= MAX_CHARS_PER_CHUNK

\* variant: the loop counter is passed as the chunk index
ChunkIndex_ZeroBased(i) == i

\* line 216: const chunkIndex = i + 1
ChunkIndex(i) == i + 1

\* the chunk of the i-th call (0-based) of parseSingleChunk for a page
ChunkOf(len, i) ==
    IF SingleChunk(len) THEN [from |-> 0, to |-> len]
    ELSE chunkText(len, MAX_CHARS_PER_CHUNK)[i + 1]

\* the number of parseSingleChunk calls still to come after call i
LastCall(len, i) ==
    SingleChunk(len) \/ i + 1 >= Len(chunkText(len, MAX_CHARS_PER_CHUNK))

\* variant: the last chunk that reports a location wins
AdoptLocation_AnyChunk(chunkIndex, location, eventLocation) ==
    IF IsText(location) /\ location # <<>>
    THEN Trim(location) ELSE eventLocation

\* lines 220-223
AdoptLocation(chunkIndex, location, eventLocation) ==
    IF chunkIndex = 1 /\ IsText(location) /\ location # <<>>
    THEN Trim(location) ELSE eventLocation

\* the schedule handed to handleParsedSchedule (lines 198-202 and 236-245)
EnterHps(rec, schedule) ==
    [rec EXCEPT !.pc = "hpsGet", !.parsed = schedule,
                !.fullSubEvents = <<>>, !.eventLocation = NullStr]

SetSchedule(r, list) ==
    [i \in 1..Len(enrichLog) |->
        IF enrichLog[i].run = r /\ enrichLog[i].status = "running"
        THEN [enrichLog[i] EXCEPT !.subEvents = list]
        ELSE enrichLog[i]]

\* variant: no per-chunk catch
OnChunkFailure_Abort == "abort"

\* lines 228-233: what follows a failed chunk of a multi-chunk page: "skip"
\* (the catch of line 228) or "abort"
OnChunkFailure == "skip"

\* parseSingleChunk returns or throws: the transformer call failed ("error"),
\* its answer is not JSON ("badjson"), or it parsed into a schedule
Gpt(r, env) ==
    /\ run[r].pc = "gpt"
    /\ LET rec == run[r]
           chunk == ChunkOf(rec.page, rec.ci)
           chunkIndex == ChunkIndex(rec.ci)
       IN  \E ok \in BOOLEAN : \E schedule \in IF ok THEN env.schedules ELSE {NoSchedule} :
            /\ gptLog' = [gptLog EXCEPT ![r] =
                    Append(@, [len |-> rec.page, chunkIndex |-> chunkIndex,
                               from |-> chunk.from, to |-> chunk.to,
                               ok |-> ok, schedule |-> schedule])]
            /\ IF SingleChunk(rec.page)
               THEN IF ok
                    THEN LET single == [schedule EXCEPT
                                 !.subEvents = deduplicateSubEvents(schedule.subEvents)]
                         IN  /\ run' = [run EXCEPT ![r] = EnterHps(rec, single)]
                             /\ enrichLog' = SetSchedule(r, single.subEvents)
                    ELSE \* the catch of line 252: isSuccess = false
                         EnrichFailed(r)
               ELSE IF ~ok /\ OnChunkFailure = "abort"
                    THEN EnrichFailed(r)
                    ELSE
                    LET loc == IF ok
                               THEN AdoptLocation(chunkIndex, schedule.location,
                                                  rec.eventLocation)
                               ELSE rec.eventLocation
                        full == rec.fullSubEvents \o schedule.subEvents
                    IN  IF LastCall(rec.page, rec.ci)
                        THEN LET merged == [location |-> loc,
                                            subEvents |-> deduplicateSubEvents(full)]
                             IN  /\ run' = [run EXCEPT ![r] = EnterHps(rec, merged)]
                                 /\ enrichLog' = SetSchedule(r, merged.subEvents)
                        ELSE /\ run' = [run EXCEPT ![r].ci = rec.ci + 1,
                                                   ![r].fullSubEvents = full,
                                                   ![r].eventLocation = loc]
                             /\ UNCHANGED enrichLog
    /\ UNCHANGED << profile, events, subEvents, trail, dbFaults, call >>

\* ------------------------------------------------------ handleParsedSchedule
\* variant: a blank location counts as a location
HasLocation_NoTrim(parsed) == IsText(parsed.location) /\ parsed.location # <<>>

\* line 282
HasLocation(parsed) == IsText(parsed.location) /\ Trim(parsed.location) # <<>>

\* variant: the parent location is not read
ParentLoc_NotRead(event) == <<>>

\* lines 276-279: the parent location handleParsedSchedule joins with
ParentLoc(event) == IF event.id # NoId THEN TrimOrEmpty(event.location) ELSE <<>>

\* variant: a child location without a parent location is lost
FinalLoc_DropsChild(parentLoc, childLoc) ==
    IF parentLoc # <<>> /\ childLoc # <<>>
    THEN parentLoc \o <<" ", "-", "-", " ">> \o childLoc
    ELSE parentLoc

\* variant: equal locations are not joined
FinalLoc_DistinctOnly(parentLoc, childLoc) ==
    IF parentLoc # <<>> /\ childLoc # <<>> /\ parentLoc # childLoc
    THEN parentLoc \o <<" ", "-", "-", " ">> \o childLoc
    ELSE IF parentLoc # <<>> THEN parentLoc
    ELSE IF childLoc # <<>> THEN childLoc
    ELSE <<>>

\* lines 302-311
FinalLoc(parentLoc, childLoc) ==
    IF parentLoc # <<>> /\ childLoc # <<>>
    THEN parentLoc \o <<" ", "-", "-", " ">> \o childLoc
    ELSE IF parentLoc # <<>> THEN parentLoc
    ELSE IF childLoc # <<>> THEN childLoc
    ELSE <<>>

\* lines 299-323
SubEventData(eventId, parentLoc, gptSub) ==
    [eventId |-> eventId,
     startTime |-> TrimOrNull(gptSub.startTime),
     endTime |-> TrimOrNull(gptSub.endTime),
     subEventName |-> IF TrimOrEmpty(gptSub.title) = <<>>
                      THEN <<"U">> ELSE Trim(gptSub.title),
     speaker |-> TrimOrNull(gptSub.speaker),
     speakerPosition |-> TrimOrNull(gptSub.speakerPosition),
     speakerCompany |-> TrimOrNull(gptSub.speakerCompany),
     location |-> LET finalLoc == FinalLoc(parentLoc, TrimOrEmpty(gptSub.location))
                  IN  IF finalLoc = <<>> THEN NullStr ELSE finalLoc]

\* variant: a row equal to a stored one is not inserted again
InsertSubEvent_Once(rows, data) ==
    IF \E i \in 1..Len(rows) : rows[i] = data THEN rows ELSE Append(rows, data)

\* createSubEventAction: db.insert(subEventsTable).values(...)
InsertSubEvent(rows, data) == Append(rows, data)

\* lines 286-297: return when there is nothing to insert, else the first insert
AfterLocation(r) ==
    IF run[r].parsed.subEvents = <<>>
    THEN EnrichSucceeded(r)
    ELSE /\ run' = [run EXCEPT ![r].pc = "hpsInsert", ![r].k = 1]
         /\ UNCHANGED enrichLog

\* lines 275-284: getEventByIdAction for the parent location
HpsGet(r, env) ==
    /\ run[r].pc = "hpsGet"
    /\ \E dbOk \in DbOutcomes(env) :
        LET event == GetEventById(events, run[r].eventId, dbOk)
            parentLoc == ParentLoc(event)
        IN  /\ Faulted(dbOk)
            /\ IF HasLocation(run[r].parsed)
               THEN /\ run' = [run EXCEPT ![r].pc = "hpsUpdate",
                                          ![r].parentLoc = parentLoc]
                    /\ UNCHANGED enrichLog
               ELSE IF run[r].parsed.subEvents = <<>>
               THEN EnrichSucceeded(r)
               ELSE /\ run' = [run EXCEPT ![r].pc = "hpsInsert", ![r].k = 1,
                                          ![r].parentLoc = parentLoc]
                    /\ UNCHANGED enrichLog
    /\ UNCHANGED << profile, events, subEvents, gptLog, trail, call >>

\* line 283: updateEventAction(eventId, { location }); its failure is a
\* returned ActionState nobody reads
HpsUpdate(r, env) ==
    /\ run[r].pc = "hpsUpdate"
    /\ \E dbOk \in DbOutcomes(env) :
        LET hit == { e \in events : dbOk /\ e.id = run[r].eventId }
        IN  /\ events' = (events \ hit) \cup
                   { [e EXCEPT !.location = Trim(run[r].parsed.location)] : e \in hit }
            /\ trail' = [trail EXCEPT ![r].wrote = @ \/ hit # {}]
            /\ Faulted(dbOk)
    /\ AfterLocation(r)
    /\ UNCHANGED << profile, subEvents, gptLog, call >>

\* variant: a failed insert ends the loop
InsertContinues_OnlyOnSuccess(dbOk) == dbOk

\* lines 325-332: whether the loop goes on after an insert; a failure of
\* createSubEventAction is a returned ActionState or a caught exception
InsertContinues(dbOk) == TRUE

\* lines 297-333: the insert of candidate k; a failed insert is logged
HpsInsert(r, env) ==
    /\ run[r].pc = "hpsInsert"
    /\ LET rec == run[r]
           data == SubEventData(rec.eventId, rec.parentLoc, rec.parsed.subEvents[rec.k])
           counted == [i \in 1..Len(enrichLog) |->
                          IF enrichLog[i].run = r /\ enrichLog[i].status = "running"
                          THEN [enrichLog[i] EXCEPT !.inserted = @ + 1]
                          ELSE enrichLog[i]]
       IN  \E dbOk \in DbOutcomes(env) :
            /\ subEvents' = IF dbOk THEN InsertSubEvent(subEvents, data) ELSE subEvents
            /\ trail' = [trail EXCEPT ![r].wrote = @ \/ dbOk]
            /\ Faulted(dbOk)
            /\ LET log == IF dbOk THEN counted ELSE enrichLog
               IN  IF ~InsertContinues(dbOk)
                   THEN EnrichFailed(r)
                   ELSE IF rec.k < Len(rec.parsed.subEvents)
                   THEN /\ run' = [run EXCEPT ![r].k = rec.k + 1]
                        /\ enrichLog' = log
                   ELSE /\ run' = [run EXCEPT ![r] = Continue(rec)]
                        /\ enrichLog' =
                              [i \in 1..Len(log) |->
                                  IF log[i].run = r /\ log[i].status = "running"
                                  THEN [log[i] EXCEPT !.status = "ok"] ELSE log[i]]
    /\ UNCHANGED << profile, events, gptLog, call >>

\* ----------------------------------------------------------- specifications
\* the inputs a run can meet: provider responses, scraped pages, extraction
\* results, database faults
Env == [responses |-> Responses, pageLens |-> PageLens,
        schedules |-> Schedules, maxDbFaults |-> MaxDbFaults]

Step(r, env) ==
    \/ TokenCheck(r) \/ TokenRefresh(r) \/ FetchFailed(r) \/ Fetch(r, env)
    \/ Lookup(r, env) \/ UpsertUpdate(r, env) \/ UpsertInsert(r, env)
    \/ ProcGet(r, env) \/ ScrapeFailed(r) \/ Scrape(r, env) \/ Gpt(r, env)
    \/ HpsGet(r, env) \/ HpsUpdate(r, env) \/ HpsInsert(r, env)

\* runs one after the other
Next == \E r \in Runs : StartSerial(r) \/ Step(r, Env)

Spec == Init /\ [][Next]_vars

\* Runs interleaved at their awaits, on one provider event whose page fits one
\* chunk, with the database up.  The event is new, or an earlier sync stored
\* it when its description held no link.
RaceEnv == [responses |-> ResponsesOver(1, 1), pageLens |-> {MAX_CHARS_PER_CHUNK},
            schedules |-> { [location |-> <<" ", "V">>, subEvents |-> <<cAnn>>] },
            maxDbFaults |-> 0]

PriorRow ==
    [id |-> 1] @@ EventData([id |-> 1, summary |-> "T", description |-> <<>>,
                             location |-> <<"H">>, start |-> StartOf(1)])

InitConc ==
    /\ profile \in Profiles
    /\ events \in { {}, {PriorRow} }
    /\ subEvents = <<>>
    /\ run = [r \in Runs |-> IdleRun]
    /\ enrichLog = <<>>
    /\ gptLog = [r \in Runs |-> <<>>]
    /\ trail = [r \in Runs |-> NoTrail]
    /\ dbFaults = 0
    /\ call = NoCall

NextConc == \E r \in Runs : Start(r) \/ Step(r, RaceEnv)

SpecConc == InitConc /\ [][NextConc]_vars


\* =================================================================== claims
ValidItems(items) == { i \in 1..Len(items) : ~Skipped(items[i]) }

LinkOf(item) == extractFirstLink(item.description)

\* the enrichments run r invoked for the provider event with this id
EntriesFor(rs, id) ==
    { n \in 1..Len(enrichLog) :
        enrichLog[n].run \in rs /\ enrichLog[n].calendarEventId = id }

RowsFor(rows, id) == { e \in rows : e.userId = UserId /\ e.calendarEventId = id }

\* C1: when two consecutive runs both get the same provider event with the
\* same non-null link, processExternalLinkAction is invoked for that event at
\* most once over the two runs.
C1_AtMostOneEnrichment ==
    \A r \in Runs : \A q \in Runs :
        q = r + 1 =>
            \A i \in ValidItems(run[r].items) : \A j \in ValidItems(run[q].items) :
                ( /\ run[r].items[i].id = run[q].items[j].id
                  /\ LinkOf(run[r].items[i]) # NULL
                  /\ LinkOf(run[r].items[i]) = LinkOf(run[q].items[j]) )
                => Cardinality(EntriesFor({r, q}, run[r].items[i].id)) <= 1

\* both runs are over, both got event 1 with link L1, the first one enriched it
C1_Witness ==
    /\ run[1].pc = "done" /\ run[2].pc = "done"
    /\ run[1].result.isSuccess /\ run[2].result.isSuccess
    /\ \E i \in ValidItems(run[1].items) : \E j \in ValidItems(run[2].items) :
        /\ run[1].items[i].id = 1 /\ run[2].items[j].id = 1
        /\ LinkOf(run[1].items[i]) = "L1" /\ LinkOf(run[2].items[j]) = "L1"
    /\ Cardinality(EntriesFor({1}, 1)) = 1
    /\ EntriesFor({2}, 1) = {}

\* C2: the events store never holds two rows with the same
\* (userId, calendarEventId), however the runs interleave.
C2_UniqueKey ==
    \A a \in events : \A b \in events :
        (a.userId = b.userId /\ a.calendarEventId = b.calendarEventId) => a = b

\* two runs raced to insert the same event: one insert was rejected
C2_Witness ==
    /\ \E r \in Runs :
        /\ run[r].pc = "done"
        /\ run[r].result = Fail("Failed to sync Google Calendar events")
        /\ ValidItems(run[r].items) # {}
    /\ Cardinality(events) = 1

\* C3: an upsert invokes enrichment exactly when the extracted link is
\* non-null and no row of the event held that link before the upsert (no row
\* at all, or a row with another or no link); in every case the row then
\* holds the extracted link.
C3_EnrichIffLinkChanged ==
    [][ \A r \in Runs :
          (run[r].pc = "upsert" /\ run'[r].pc # "upsert" /\ dbFaults' = dbFaults) =>
              LET item == run[r].items[run[r].idx]
                  link == LinkOf(item)
                  changed == /\ link # NULL
                             /\ \A e \in RowsFor(events, item.id) : e.externalLink # link
              IN  /\ (run'[r].pc = "procGet") <=> changed
                  /\ (Len(enrichLog') = Len(enrichLog) + 1) <=> changed
                  /\ ~changed => enrichLog' = enrichLog
                  /\ RowsFor(events', item.id) # {}
                  /\ \A e \in RowsFor(events', item.id) : e.externalLink = link
      ]_vars

\* a later run got event 1 without the link an earlier run enriched: the row
\* lost the link and no enrichment was invoked
C3_Witness ==
    /\ run[2].pc = "done" /\ run[2].result.isSuccess
    /\ \E j \in ValidItems(run[2].items) :
        run[2].items[j].id = 1 /\ LinkOf(run[2].items[j]) = NULL
    /\ EntriesFor({1}, 1) # {}
    /\ EntriesFor({2}, 1) = {}
    /\ \A e \in RowsFor(events, 1) : e.externalLink = NULL

\* C4: a run that reached the loop returns isSuccess = true whatever its
\* enrichments did, and when it returns every provider event that was not
\* skipped has its row with the fields of the upsert; the row of an event
\* whose enrichment failed has all of them.
C4_EnrichmentFailureIsolated ==
    \A r \in Runs :
        ( /\ run[r].pc = "done" /\ trail[r].stage = "loop"
          /\ \A q \in Runs : q > r => run[q].pc = "idle" )
        => /\ run[r].result.isSuccess
           /\ \A i \in ValidItems(run[r].items) :
                LET data == EventData(run[r].items[i])
                    failed == \E n \in EntriesFor({r}, data.calendarEventId) :
                                  enrichLog[n].status = "failed"
                IN  /\ RowsFor(events, data.calendarEventId) # {}
                    /\ \A e \in RowsFor(events, data.calendarEventId) :
                        /\ e.eventTitle = data.eventTitle
                        /\ e.startTime = data.startTime
                        /\ e.externalLink = data.externalLink
                        /\ failed => e.location = data.location

\* the enrichment of the first event failed, the second event was upserted
\* and enriched, and the run reported success
C4_Witness ==
    /\ run[1].pc = "done" /\ run[1].result.isSuccess /\ run[2].pc = "idle"
    /\ Len(enrichLog) = 2
    /\ enrichLog[1].idx = 1 /\ enrichLog[1].status = "failed"
    /\ enrichLog[2].idx = 2 /\ enrichLog[2].status = "ok"
    /\ Cardinality(events) = 2

\* C5: a run that stops in the token check, the token refresh or the fetch
\* returns isSuccess = false with a message, has written no row and has
\* invoked no enrichment.
C5_EarlyFailureWritesNothing ==
    \A r \in Runs :
        ( /\ run[r].pc = "done"
          /\ \/ ~profile.exists
             \/ profile.googleAccessToken = NULL
             \/ trail[r].stage \in {"noProfile", "noToken", "refreshFailed", "fetchFailed"} )
        => /\ ~run[r].result.isSuccess
           /\ run[r].result.message # ""
           /\ ~trail[r].wrote
           /\ ~trail[r].enriched
           /\ \A n \in 1..Len(enrichLog) : enrichLog[n].run # r

\* one run stopped at the fetch, the next at the token refresh
C5_Witness ==
    /\ run[1].pc = "done" /\ trail[1].stage = "fetchFailed"
    /\ run[2].pc = "done" /\ trail[2].stage = "refreshFailed"
    /\ events = {} /\ subEvents = <<>>

\* the operations of handleParsedSchedule a run can be awaiting
HpsPcs == {"hpsGet", "hpsUpdate", "hpsInsert"}

\* the operations of processExternalLinkAction a run can be awaiting
EnrichPcs == {"procGet", "scrape", "gpt"} \cup HpsPcs

MultiChunk(len) == len > MAX_CHARS_PER_CHUNK

\* the candidates of the calls that parsed, in call order
RECURSIVE OkCandidates(_)
OkCandidates(calls) ==
    IF calls = <<>> THEN <<>>
    ELSE (IF Head(calls).ok THEN Head(calls).schedule.subEvents ELSE <<>>)
         \o OkCandidates(Tail(calls))

\* the enrichments run r invoked, as positions of enrichLog
EntriesOf(r) == { n \in 1..Len(enrichLog) : enrichLog[n].run = r }

\* C6: on a page longer than the threshold a failed chunk stops nothing: once
\* the extraction calls are over there was one call for every chunk, the
\* schedule handed to handleParsedSchedule holds the deduplicated candidates
\* of the chunks that parsed, and the enrichment is never reported as failed.
C6_ChunkFailureIsolated ==
    \A r \in Runs :
        (gptLog[r] # <<>> /\ MultiChunk(gptLog[r][1].len)) =>
            /\ EntriesOf(r) # {}
            /\ \A n \in EntriesOf(r) :
                (\A m \in EntriesOf(r) : m <= n) => enrichLog[n].status # "failed"
            /\ run[r].pc \in HpsPcs =>
                /\ Len(gptLog[r]) = Len(chunkText(run[r].page, MAX_CHARS_PER_CHUNK))
                /\ run[r].parsed.subEvents =
                       deduplicateSubEvents(OkCandidates(gptLog[r]))
                /\ \E n \in EntriesOf(r) :
                       /\ enrichLog[n].status = "running"
                       /\ enrichLog[n].subEvents = run[r].parsed.subEvents

\* a chunk failed, a sibling parsed, and its candidates reached persistence
C6_Witness ==
    \E r \in Runs :
        /\ run[r].pc = "hpsInsert"
        /\ MultiChunk(run[r].page)
        /\ \E i \in 1..Len(gptLog[r]) : ~gptLog[r][i].ok
        /\ \E i \in 1..Len(gptLog[r]) : gptLog[r][i].ok
        /\ run[r].parsed.subEvents # <<>>

\* the parseSingleChunk calls parseEventDetailsAction makes for a page
ExpectedCalls(len) ==
    IF len <= MAX_CHARS_PER_CHUNK
    THEN << [chunkIndex |-> 1, from |-> 0, to |-> len] >>
    ELSE LET chunks == chunkText(len, MAX_CHARS_PER_CHUNK)
         IN  [i \in 1..Len(chunks) |->
                [chunkIndex |-> i, from |-> chunks[i].from, to |-> chunks[i].to]]

\* C7: the calls of parseSingleChunk for a page are, in order, one call with
\* index 1 and the whole text when the page is at or below the threshold, and
\* else one call per chunk of chunkText with indices 1..k; no call is made
\* twice, and all of them are made before handleParsedSchedule runs.
C7_OneCallPerChunk ==
    \A r \in Runs :
        /\ gptLog[r] # <<>> =>
            LET len == gptLog[r][1].len
                expected == ExpectedCalls(len)
            IN  /\ Len(gptLog[r]) <= Len(expected)
                /\ \A i \in 1..Len(gptLog[r]) :
                    /\ i <= Len(expected)
                    /\ gptLog[r][i].len = len
                    /\ gptLog[r][i].chunkIndex = expected[i].chunkIndex
                    /\ gptLog[r][i].from = expected[i].from
                    /\ gptLog[r][i].to = expected[i].to
        /\ run[r].pc = "gpt" => Len(gptLog[r]) = run[r].ci
        /\ run[r].pc \in HpsPcs =>
            /\ gptLog[r] # <<>>
            /\ gptLog[r][1].len = run[r].page
            /\ Len(gptLog[r]) = Len(ExpectedCalls(run[r].page))

\* a page one character above the threshold was parsed to the end, its second
\* call on the one-character chunk, after the run's first event had been
\* enriched too
C7_Witness ==
    \E r \in Runs :
        /\ run[r].pc = "hpsGet" /\ run[r].idx = 2
        /\ \E n \in EntriesOf(r) : enrichLog[n].idx = 1 /\ enrichLog[n].status = "ok"
        /\ run[r].page = MAX_CHARS_PER_CHUNK + 1
        /\ Len(gptLog[r]) = 2
        /\ gptLog[r][2].chunkIndex = 2
        /\ gptLog[r][2].from = MAX_CHARS_PER_CHUNK
        /\ gptLog[r][2].to = MAX_CHARS_PER_CHUNK + 1

\* the stored rows of an event that hold this candidate (the location aside,
\* which depends on the parent row read at the time)
RowsOfCandidate(rows, eventId, gptSub) ==
    { i \in 1..Len(rows) :
        [rows[i] EXCEPT !.location = NullStr] =
            [SubEventData(eventId, <<>>, gptSub) EXCEPT !.location = NullStr] }

\* two enrichments of one event that both went through with the same schedule
\* and stored all of it
SameScheduleTwice(m, n) ==
    /\ m < n
    /\ enrichLog[m].status = "ok" /\ enrichLog[n].status = "ok"
    /\ enrichLog[m].eventId = enrichLog[n].eventId
    /\ enrichLog[m].subEvents # <<>>
    /\ enrichLog[m].subEvents = enrichLog[n].subEvents
    /\ enrichLog[m].inserted = Len(enrichLog[m].subEvents)
    /\ enrichLog[n].inserted = Len(enrichLog[n].subEvents)

\* C8: no step removes or changes a stored sub-event row (the store only
\* grows at its end), and after two successful enrichments of one event with
\* the same schedule every candidate of that schedule is stored at least
\* twice under the event.
C8_AppendOnly ==
    [][ /\ Len(subEvents') >= Len(subEvents)
        /\ SubSeq(subEvents', 1, Len(subEvents)) = subEvents
        /\ \A m \in 1..Len(enrichLog') : \A n \in 1..Len(enrichLog') :
              ( /\ m < n
                /\ enrichLog'[m].status = "ok" /\ enrichLog'[n].status = "ok"
                /\ enrichLog'[m].eventId = enrichLog'[n].eventId
                /\ enrichLog'[m].subEvents # <<>>
                /\ enrichLog'[m].subEvents = enrichLog'[n].subEvents
                /\ enrichLog'[m].inserted = Len(enrichLog'[m].subEvents)
                /\ enrichLog'[n].inserted = Len(enrichLog'[n].subEvents) )
              => \A k \in 1..Len(enrichLog'[m].subEvents) :
                    Cardinality(RowsOfCandidate(subEvents', enrichLog'[m].eventId,
                                                enrichLog'[m].subEvents[k])) >= 2
      ]_vars

\* an event was enriched twice with the same two candidates: four rows
C8_Witness ==
    /\ \E m \in 1..Len(enrichLog) : \E n \in 1..Len(enrichLog) :
        SameScheduleTwice(m, n) /\ Len(enrichLog[m].subEvents) = 2
    /\ Len(subEvents) = 4
    /\ subEvents[1].subEventName = subEvents[3].subEventName
    /\ subEvents[2].speaker = subEvents[4].speaker

\* C9: nothing guards an enrichment against another run: a run that read a
\* row at its lookup enriches exactly when the extracted link is non-null and
\* differs from the link of the row as it read it, whatever the other runs
\* have written or started since.
C9_StaleReadEnriches ==
    [][ \A r \in Runs :
          ( /\ run[r].pc = "upsert" /\ run'[r].pc # "upsert"
            /\ dbFaults' = dbFaults
            /\ run[r].existing.id # NoId )
          => LET link == LinkOf(run[r].items[run[r].idx])
                 changed == link # NULL /\ link # run[r].existing.externalLink
             IN  /\ (run'[r].pc = "procGet") <=> changed
                 /\ (Len(enrichLog') = Len(enrichLog) + 1) <=> changed
      ]_vars

\* two runs read the same stored row, both enriched it for the same new link,
\* and the sub-event of the page is stored twice
C9_Witness ==
    /\ Cardinality(events) = 1
    /\ \E m \in EntriesOf(1) : \E n \in EntriesOf(2) :
        /\ enrichLog[m].rowRead # NoId
        /\ enrichLog[m].rowRead = enrichLog[n].rowRead
        /\ enrichLog[m].eventId = enrichLog[n].eventId
        /\ enrichLog[m].link # NULL
        /\ enrichLog[m].link = enrichLog[n].link
        /\ enrichLog[m].status = "ok" /\ enrichLog[n].status = "ok"
        /\ enrichLog[m].inserted = 1 /\ enrichLog[n].inserted = 1
    /\ Len(subEvents) = 2
    /\ subEvents[1] = subEvents[2]

\* C10: a run handles its provider events one at a time, in order: while it
\* looks up or upserts an event none of its enrichments is still running,
\* every earlier event of the response that was not skipped has its row, and
\* its enrichments were invoked in the order of the response; a running
\* enrichment is that of the event the run is at.
C10_OneAtATime ==
    \A r \in Runs :
        /\ \A n \in EntriesOf(r) :
            /\ enrichLog[n].status = "running" =>
                /\ run[r].pc \in EnrichPcs
                /\ run[r].idx = enrichLog[n].idx
                /\ \A m \in EntriesOf(r) : m <= n
            /\ \A m \in EntriesOf(r) : m < n => enrichLog[m].idx < enrichLog[n].idx
            /\ Active(r) => enrichLog[n].idx <= run[r].idx
        /\ run[r].pc \in {"lookup", "upsert"} =>
            \A n \in EntriesOf(r) :
                enrichLog[n].status # "running" /\ enrichLog[n].idx < run[r].idx
        /\ run[r].pc \in {"lookup", "upsert"} \cup EnrichPcs =>
            \A i \in ValidItems(run[r].items) :
                i < run[r].idx =>
                    \E e \in RowsFor(events, run[r].items[i].id) :
                        e.externalLink = LinkOf(run[r].items[i])
        /\ run[r].pc \in EnrichPcs =>
            \E n \in EntriesOf(r) : enrichLog[n].status = "running"

\* the first event was enriched to the end, two chunks and two inserts, and
\* only now the run looks up the second event
C10_Witness ==
    /\ run[1].pc = "lookup" /\ run[1].idx = 2
    /\ Len(enrichLog) = 1
    /\ enrichLog[1].run = 1 /\ enrichLog[1].idx = 1
    /\ enrichLog[1].status = "ok" /\ enrichLog[1].inserted = 2
    /\ Len(gptLog[1]) = 2
    /\ RowsFor(events, run[1].items[2].id) = {}

\* C11: a token refresh that succeeds writes the new token and a later
\* expiry to the credential store, so that the token the next run reads is
\* not the expired one.
C11_RefreshedTokenStored ==
    [][ \A r \in Runs :
          (run[r].pc = "refresh" /\ run'[r].pc = "fetch") =>
              /\ profile'.googleAccessToken # profile.googleAccessToken
              /\ profile'.googleTokenExpires > profile.googleTokenExpires
      ]_vars

\* ------------------------------------------------- functions on their own
\* A function of the program applied to one input: the initial state draws
\* the input, the action applies the function, the stores stay as they are.
modelVars == << profile, events, subEvents, run, enrichLog, gptLog, trail, dbFaults >>

Input(op, arg) == [op |-> op, arg |-> arg, done |-> FALSE, out |-> <<>>]

Applied(op) == call.op = op /\ call.done

\* texts of at most n characters over two letters
Texts(n) == UNION { [1..k -> {"a", "b"}] : k \in 0..n }

ChunkTextInputs ==
    { Input("chunkText", [text |-> t, maxLen |-> n]) :
        t \in Texts(MaxTextLen), n \in 1..MaxChunkLen }

ApplyChunkText ==
    /\ call.op = "chunkText" /\ ~call.done
    /\ call' = [call EXCEPT !.done = TRUE,
                            !.out = ChunkStrings(call.arg.text, call.arg.maxLen)]
    /\ UNCHANGED modelVars

\* candidates for deduplicateSubEvents on its own: keys that differ in case
\* and blanks only, empty and missing fields, fields holding the bar character
cBobDup == Cand(<<"K">>, <<"b", " ">>, NullStr, <<>>, NullStr)
cBarA == Cand(<<"K">>, <<"x", "|">>, <<>>, <<"1">>, NullStr)
cBarB == Cand(<<"K">>, <<"x">>, <<"|">>, <<"1">>, NullStr)

DedupPool == { cAnn, cAnnDup, cBob, cBobDup, cBarA, cBarB }

DedupInputs ==
    { Input("dedup", l) : l \in UNION { [1..k -> DedupPool] : k \in 0..MaxListLen } }

ApplyDedup ==
    /\ call.op = "dedup" /\ ~call.done
    /\ call' = [call EXCEPT !.done = TRUE, !.out = deduplicateSubEvents(call.arg)]
    /\ UNCHANGED modelVars

\* the location of the row handleParsedSchedule stores for a candidate, from
\* the parent row it read (NoRow when the read failed) and the candidate
ParentLocations == { NullStr, <<>>, <<" ">>, <<"H">>, <<" ", "H", " ">>, <<"R">> }

ChildLocations == { NullStr, <<>>, <<" ">>, <<"R">>, <<"R", " ">>, <<"H">> }

LocationInputs ==
    { Input("location", [event |-> e, gptSub |-> Cand(<<"K">>, <<"A">>, <<"9">>, <<"1">>, c)]) :
        e \in {NoRow} \cup { [PriorRow EXCEPT !.location = p] : p \in ParentLocations },
        c \in ChildLocations }

ApplyLocation ==
    /\ call.op = "location" /\ ~call.done
    /\ LET data == SubEventData(call.arg.event.id, ParentLoc(call.arg.event),
                                call.arg.gptSub)
       IN  call' = [call EXCEPT !.done = TRUE,
                                !.out = InsertSubEvent(<<>>, data)[1].location]
    /\ UNCHANGED modelVars

\* parseSingleChunk lines 139-151 on the transformer's answer.  Characters:
\* the backtick (written "#" here), the letter j (a language tag), newline,
\* blank, and the characters of three JSON texts.
Fence == <<"#", "#", "#">>

IsWordChar(c) == c \in {"j", "s", "1"}          \* \w

IsJsonSpace(c) == c \in {" ", "\n"}

RECURSIVE DropWordChars(_)
DropWordChars(s) ==
    IF s # <<>> /\ IsWordChar(Head(s)) THEN DropWordChars(Tail(s)) ELSE s

StartsWith(s, p) == Len(s) >= Len(p) /\ SubSeq(s, 1, Len(p)) = p

EndsWith(s, p) == Len(s) >= Len(p) /\ SubSeq(s, Len(s) - Len(p) + 1, Len(s)) = p

\* replace(/^###(\w+)?\n?/, empty): at the very start of the string only
StripOpeningFence(s) ==
    IF StartsWith(s, Fence)
    THEN LET rest == DropWordChars(SubSeq(s, 4, Len(s)))
         IN  IF rest # <<>> /\ Head(rest) = "\n" THEN Tail(rest) ELSE rest
    ELSE s

\* replace(/###$/, empty): at the very end of the string only
StripClosingFence(s) ==
    IF EndsWith(s, Fence) THEN SubSeq(s, 1, Len(s) - 3) ELSE s

RECURSIVE DropJsonSpaceLeft(_)
DropJsonSpaceLeft(s) ==
    IF s # <<>> /\ IsJsonSpace(Head(s)) THEN DropJsonSpaceLeft(Tail(s)) ELSE s

RECURSIVE DropJsonSpaceRight(_)
DropJsonSpaceRight(s) ==
    IF s # <<>> /\ IsJsonSpace(s[Len(s)])
    THEN DropJsonSpaceRight(SubSeq(s, 1, Len(s) - 1)) ELSE s

\* the JSON texts of the model: two objects and a number
JsonTexts == { <<"{", "}">>, <<"{", "s", "}">>, <<"1">> }

\* JSON.parse: the value of a JSON text with white space around it, else a
\* SyntaxError
JsonParse(s) ==
    LET body == DropJsonSpaceRight(DropJsonSpaceLeft(s))
    IN  IF body \in JsonTexts THEN [ok |-> TRUE, value |-> body]
        ELSE [ok |-> FALSE, value |-> <<>>]

\* lines 139-151
ParseResponse(rawResponse) ==
    JsonParse(StripClosingFence(StripOpeningFence(rawResponse)))

\* answers that wrap a JSON text in a fence: with or without a language tag,
\* a newline after the opening fence and before the closing one, and white
\* space before the opening fence or after the closing one
Blank == { <<>>, <<"\n">>, <<" ">> }

FencedResponses(json) ==
    { pre \o Fence \o tag \o nl1 \o json \o nl2 \o Fence \o post :
        pre \in Blank, tag \in {<<>>, <<"j">>}, nl1 \in {<<>>, <<"\n">>},
        nl2 \in {<<>>, <<"\n">>}, post \in Blank }

ParseInputs ==
    { Input("parse", [json |-> j, rawResponse |-> raw]) :
        j \in JsonTexts, raw \in JsonTexts \cup UNION { FencedResponses(t) : t \in JsonTexts } }

ApplyParse ==
    /\ call.op = "parse" /\ ~call.done
    /\ call' = [call EXCEPT !.done = TRUE, !.out = ParseResponse(call.arg.rawResponse)]
    /\ UNCHANGED modelVars

\* scrapePageContent (part_009 lines 62-106) as a process of its own: the
\* function is suspended at "await fetch" and at "await response.text()";
\* between the two awaits its code runs without interruption.  Time is a
\* counter; the server's headers arrive at headersAt and the body is
\* complete bodyAfter later.
MaxTimeout == 2

MaxTime == 3

ScrapeOptions ==
    {[given |-> FALSE, timeoutMs |-> 0]}
    \cup { [given |-> TRUE, timeoutMs |-> t] : t \in 0..MaxTimeout }

\* const { timeoutMs = 0 } = options || {}
TimeoutOf(options) == IF options.given THEN options.timeoutMs ELSE 0

ScrapeStart ==
    [pc |-> "start", now |-> 0, timeoutId |-> "undefined", timer |-> "none",
     aborted |-> FALSE, result |-> "none"]

ScrapeInputs ==
    { [Input("scrape", [options |-> o, headers |-> h, headersAt |-> ha,
                        body |-> b, bodyAfter |-> ba]) EXCEPT !.out = ScrapeStart] :
        o \in ScrapeOptions, h \in {"200", "404", "networkError"},
        ha \in 1..MaxTime, b \in {"html", "networkError"}, ba \in 0..MaxTime - 1 }

Scraping == call.op = "scrape" /\ ~call.done

\* lines 66-83: the controller, the timer when timeoutMs > 0, the request
ScrapeBegin ==
    /\ Scraping /\ call.out.pc = "start"
    /\ LET timed == TimeoutOf(call.arg.options) > 0
       IN  call' = [call EXCEPT !.out.pc = "fetch",
                                !.out.timeoutId = IF timed THEN "set" ELSE "undefined",
                                !.out.timer = IF timed THEN "pending" ELSE "none"]
    /\ UNCHANGED modelVars

TimerDue ==
    call.out.timer = "pending" /\ call.out.now >= TimeoutOf(call.arg.options)

FetchDue ==
    call.out.pc = "fetch" /\ (call.out.aborted \/ call.out.now >= call.arg.headersAt)

TextDue ==
    /\ call.out.pc = "text"
    /\ call.out.aborted \/ call.out.now >= call.arg.headersAt + call.arg.bodyAfter

\* time passes while the function is suspended and nothing is due
Tick ==
    /\ Scraping /\ call.out.pc \in {"fetch", "text"}
    /\ ~TimerDue /\ ~FetchDue /\ ~TextDue
    /\ call' = [call EXCEPT !.out.now = @ + 1]
    /\ UNCHANGED modelVars

\* lines 72-74: the timer's callback
TimerFires ==
    /\ Scraping /\ call.out.pc \in {"fetch", "text"}
    /\ TimerDue
    /\ call' = [call EXCEPT !.out.timer = "fired", !.out.aborted = TRUE]
    /\ UNCHANGED modelVars

\* lines 100-105: clearTimeout when timeoutId is set
Finally_KeepsTimer(out) == out

Finally(out) ==
    IF out.timeoutId # "undefined" /\ out.timer = "pending"
    THEN [out EXCEPT !.timer = "cleared"] ELSE out

\* lines 94-105: catch, finally, and the promise settles
Settle(result) ==
    call' = [call EXCEPT !.done = TRUE,
                         !.out = [Finally(call.out) EXCEPT !.pc = "settled", !.result = result]]

\* lines 78-92: the request settles
FetchSettles ==
    /\ Scraping /\ FetchDue
    /\ IF call.out.aborted THEN Settle("timeout")
       ELSE IF call.arg.headers = "networkError" THEN Settle("networkError")
       ELSE IF call.arg.headers # "200" THEN Settle("httpError")
       ELSE call' = [call EXCEPT !.out.pc = "text"]
    /\ UNCHANGED modelVars

\* lines 92-93: the body is read
TextSettles ==
    /\ Scraping /\ TextDue
    /\ IF call.out.aborted THEN Settle("timeout")
       ELSE IF call.arg.body = "networkError" THEN Settle("networkError")
       ELSE Settle("html")
    /\ UNCHANGED modelVars

\* groupOverlapping (timeline.tsx lines 100-143) on the items of one date
\* bucket.  An instant is a number, NoInstant a null start or end; an item
\* carries its position in the argument as id.
MaxInstant == 2

MaxBucketLen == 3

NoInstant == -1

Instants == {NoInstant} \cup 0..MaxInstant

TimelineItem(id, start, end) == [id |-> id, start |-> start, end |-> end]

\* variant: an item without a start goes before the others
CompareByStart_NoStartFirst(a, b) ==
    IF a.start # NoInstant /\ b.start # NoInstant THEN a.start - b.start
    ELSE IF a.start # NoInstant THEN 1
    ELSE IF b.start # NoInstant THEN -1
    ELSE 0

\* the comparator of lines 104-109: negative, zero or positive
CompareByStart(a, b) ==
    IF a.start # NoInstant /\ b.start # NoInstant THEN a.start - b.start
    ELSE IF a.start # NoInstant THEN -1
    ELSE IF b.start # NoInstant THEN 1
    ELSE 0

\* Array.prototype.sort is stable: x goes behind every item that does not
\* compare greater than it
RECURSIVE InsertByStart(_, _)
InsertByStart(x, sorted) ==
    IF sorted = <<>> THEN <<x>>
    ELSE IF CompareByStart(Head(sorted), x) <= 0
         THEN <<Head(sorted)>> \o InsertByStart(x, Tail(sorted))
         ELSE <<x>> \o sorted

RECURSIVE SortByStart(_, _)
SortByStart(items, k) ==
    IF k = 0 THEN <<>>
    ELSE InsertByStart(items[k], SortByStart(items, k - 1))

\* line 121: overlap if st <= currentGroupEnd
Overlaps_Strict(st, currentGroupEnd) ==
    st # NoInstant /\ currentGroupEnd # NoInstant /\ st < currentGroupEnd

Overlaps(st, currentGroupEnd) ==
    st # NoInstant /\ currentGroupEnd # NoInstant /\ st <= currentGroupEnd

\* lines 115-135: the loop from item k on
RECURSIVE GroupFrom(_, _, _, _, _)
GroupFrom(items, k, result, currentGroup, currentGroupEnd) ==
    IF k > Len(items)
    THEN IF Len(currentGroup) > 0 THEN Append(result, currentGroup) ELSE result
    ELSE LET sub == items[k]
             st == sub.start
             en == IF sub.end # NoInstant THEN sub.end ELSE st
         IN  IF Len(currentGroup) = 0
             THEN GroupFrom(items, k + 1, result, <<sub>>, en)
             ELSE IF Overlaps(st, currentGroupEnd)
             THEN GroupFrom(items, k + 1, result, Append(currentGroup, sub),
                            IF en # NoInstant /\ en > currentGroupEnd
                            THEN en ELSE currentGroupEnd)
             ELSE GroupFrom(items, k + 1, Append(result, currentGroup), <<sub>>, en)

groupOverlapping(bucket) ==
    GroupFrom(SortByStart(bucket, Len(bucket)), 1, <<>>, <<>>, NoInstant)

\* 9:00-10:00, 9:30-11:00, 11:00-12:00 in half hours after 9:00
ExampleBucket ==
    << TimelineItem(1, 0, 2), TimelineItem(2, 1, 4), TimelineItem(3, 4, 6) >>

\* the bucket whose i-th item has the start and end f[i]
Bucket(f) == [i \in DOMAIN f |-> TimelineItem(i, f[i][1], f[i][2])]

GroupInputs == { Input("group", ExampleBucket) }

ApplyGroup ==
    /\ call.op = "group" /\ ~call.done
    /\ call' = [call EXCEPT !.done = TRUE, !.out = groupOverlapping(call.arg)]
    /\ UNCHANGED modelVars

\* The Timeline component (timeline.tsx lines 145-173) on the sub-events it
\* is given.  parentDate, start and end are instants or NoInstant; a day has
\* InstantsPerDay instants and toISOString().split("T")[0] names the day.
InstantsPerDay == 2

DayOf(instant) == instant \div InstantsPerDay

Digits == << "0", "1", "2", "3", "4", "5", "6", "7", "8", "9" >>

\* a number as text
RECURSIVE NumText(_)
NumText(n) ==
    IF n < 10 THEN <<Digits[n + 1]>> ELSE NumText(n \div 10) \o <<Digits[(n % 10) + 1]>>

SubEventWithParent(id, parentDate, subEventName, speaker, parentLink, start, end) ==
    [id |-> id, subEventName |-> subEventName, speaker |-> speaker,
     parentEventTitle |-> <<"T">>, parentLocation |-> <<>>,
     parentLink |-> parentLink, parentDate |-> parentDate,
     start |-> start, end |-> end]

\* lines 43-45 and 84-86
DateKey(s) ==
    IF s.parentDate # NoInstant THEN NumText(DayOf(s.parentDate)) ELSE <<"unknown">>

\* lines 47-50: (x || "").toLowerCase().trim()
LowerTrim(x) == Trim(ToLowerCase(x))

\* lines 43-64: the fields joined with "||"
DisplayFingerprint(s) ==
    LET bars == <<"|", "|">>
    IN  DateKey(s) \o bars \o LowerTrim(s.subEventName) \o bars
        \o LowerTrim(s.speaker) \o bars \o LowerTrim(s.parentEventTitle) \o bars
        \o LowerTrim(s.parentLocation) \o bars
        \o (IF s.start # NoInstant THEN NumText(s.start) ELSE <<"nostart">>) \o bars
        \o (IF s.end # NoInstant THEN NumText(s.end) ELSE <<"noend">>)

\* lines 38-71
RECURSIVE DisplayDedupFrom(_, _)
DisplayDedupFrom(list, seen) ==
    IF list = <<>> THEN <<>>
    ELSE LET s == Head(list)
             fingerprint == DisplayFingerprint(s)
         IN  IF fingerprint \notin seen
             THEN <<s>> \o DisplayDedupFrom(Tail(list), seen \cup {fingerprint})
             ELSE DisplayDedupFrom(Tail(list), seen)

displayDeduplicateSubEvents(list) == DisplayDedupFrom(list, {})

\* the sub-events the component can be given: 2 differs from 1 in id and
\* link only, 3 in case and blanks, 4 in the instant of the same day, 5 in
\* the day; 6 has no date and no times; 7 and 8 hold a bar; 9 starts when 1
\* ends
DisplayItems ==
    << SubEventWithParent(1, 0, <<"a">>, <<>>, "l1", 0, 1),
       SubEventWithParent(2, 0, <<"a">>, <<>>, "l2", 0, 1),
       SubEventWithParent(3, 0, <<"A", " ">>, <<>>, "l1", 0, 1),
       SubEventWithParent(4, 1, <<"a">>, <<>>, "l1", 0, 1),
       SubEventWithParent(5, 2, <<"a">>, <<>>, "l1", 0, 1),
       SubEventWithParent(6, NoInstant, <<"a">>, <<>>, "l1", NoInstant, NoInstant),
       SubEventWithParent(7, 0, <<"a", "|">>, <<>>, "l1", 0, 1),
       SubEventWithParent(8, 0, <<"a">>, <<"|">>, "l1", 0, 1),
       SubEventWithParent(9, 0, <<"b">>, <<>>, "l1", 1, 2) >>

DisplayPool == { DisplayItems[i] : i \in DOMAIN DisplayItems }

DisplayLists == UNION { [1..k -> DisplayPool] : k \in 0..MaxListLen }

DisplayDedupInputs == { Input("displayDedup", l) : l \in DisplayLists }

ApplyDisplayDedup ==
    /\ call.op = "displayDedup" /\ ~call.done
    /\ call' = [call EXCEPT !.done = TRUE, !.out = displayDeduplicateSubEvents(call.arg)]
    /\ UNCHANGED modelVars

\* lines 82-91: the buckets in the order their keys first appear
RECURSIVE AddToBucket(_, _)
AddToBucket(map, s) ==
    IF map = <<>> THEN << [key |-> DateKey(s), items |-> <<s>>] >>
    ELSE IF Head(map).key = DateKey(s)
         THEN << [Head(map) EXCEPT !.items = Append(@, s)] >> \o Tail(map)
         ELSE << Head(map) >> \o AddToBucket(Tail(map), s)

RECURSIVE GroupByDateFrom_DropsUnknown(_, _)
GroupByDateFrom_DropsUnknown(list, map) ==
    IF list = <<>> THEN map
    ELSE GroupByDateFrom_DropsUnknown(Tail(list),
            IF Head(list).parentDate = NoInstant THEN map
            ELSE AddToBucket(map, Head(list)))

RECURSIVE GroupByDateFrom(_, _)
GroupByDateFrom(list, map) ==
    IF list = <<>> THEN map
    ELSE GroupByDateFrom(Tail(list), AddToBucket(map, Head(list)))

groupByDate(list) == GroupByDateFrom(list, <<>>)

\* a.localeCompare(b) < 0 on the keys: days in order, "unknown" behind them
KeyBefore(a, b) ==
    /\ a # <<"unknown">>
    /\ b = <<"unknown">> \/ (Len(a) < Len(b)) \/ (Len(a) = Len(b) /\
          \E i \in 1..Len(a) :
             /\ \A j \in 1..(i - 1) : a[j] = b[j]
             /\ \E m, n \in 1..10 : Digits[m] = a[i] /\ Digits[n] = b[i] /\ m < n)

\* lines 157-159: the entries sorted by key (the keys are distinct)
RECURSIVE SortByKey(_)
SortByKey(map) ==
    IF map = <<>> THEN <<>>
    ELSE LET first == CHOOSE i \in 1..Len(map) :
                          \A j \in 1..Len(map) : j = i \/ KeyBefore(map[i].key, map[j].key)
         IN  << map[first] >>
             \o SortByKey([k \in 1..(Len(map) - 1) |->
                              IF k < first THEN map[k] ELSE map[k + 1]])

\* lines 145-173: what the component renders, a list of dates with their
\* overlap groups
Timeline(list) ==
    LET sortedDates == SortByKey(groupByDate(displayDeduplicateSubEvents(list)))
    IN  [b \in 1..Len(sortedDates) |->
            [date |-> sortedDates[b].key,
             groups |-> groupOverlapping(sortedDates[b].items)]]

TimelineInputs == { Input("timeline", l) : l \in DisplayLists }

ApplyTimeline ==
    /\ call.op = "timeline" /\ ~call.done
    /\ call' = [call EXCEPT !.done = TRUE, !.out = Timeline(call.arg)]
    /\ UNCHANGED modelVars

\* The location step of handleParsedSchedule (parsing-actions.ts lines
\* 281-284) on a whole row of eventsTable: the row of the sync model and the
\* column updatedAt, which the schema renews on every update
\* (events-schema.ts lines 27-30).
StampedRow(location, updatedAt) ==
    [PriorRow EXCEPT !.location = location] @@ [updatedAt |-> updatedAt]

\* updateEventAction(eventId, { location }) at time now: the row afterwards
UpdateLocation(row, location, now, dbOk) ==
    IF dbOk THEN [row EXCEPT !.location = location, !.updatedAt = now] ELSE row

WriteParsedLocation(row, parsed, now, dbOk) ==
    IF HasLocation(parsed)
    THEN UpdateLocation(row, Trim(parsed.location), now, dbOk)
    ELSE row

WriteLocationInputs ==
    { Input("writeLocation",
            [event |-> StampedRow(p, 0), now |-> n, dbOk |-> ok,
             parsed |-> [location |-> c, subEvents |-> <<>>]]) :
        p \in ParentLocations, c \in ChildLocations, n \in 1..MaxTime, ok \in BOOLEAN }

ApplyWriteLocation ==
    /\ call.op = "writeLocation" /\ ~call.done
    /\ call' = [call EXCEPT !.done = TRUE,
                            !.out = WriteParsedLocation(call.arg.event, call.arg.parsed,
                                                        call.arg.now, call.arg.dbOk)]
    /\ UNCHANGED modelVars

\* The stored start of an event (part_007 lines 84-104) for servers in
\* different time zones: timestamps over two days, bare dates, and offsets
\* from UTC in hours.
MaxOffset == 2

DateOnlyInputs ==
    { Input("dateOnly", [start |-> st, offset |-> o]) :
        st \in { [kind |-> "dateTime", v |-> h] :
                    h \in HoursPerDay..(3 * HoursPerDay - 1) }
              \cup { [kind |-> "date", v |-> d] : d \in 1..2 },
        o \in (0 - MaxOffset)..MaxOffset }

ApplyDateOnly ==
    /\ call.op = "dateOnly" /\ ~call.done
    /\ call' = [call EXCEPT !.done = TRUE,
                            !.out = DateOnlyAt(call.arg.start, call.arg.offset)]
    /\ UNCHANGED modelVars

FnInputs ==
    ChunkTextInputs \cup DedupInputs \cup LocationInputs \cup ParseInputs
    \cup ScrapeInputs \cup GroupInputs \cup DisplayDedupInputs \cup TimelineInputs
    \cup WriteLocationInputs \cup DateOnlyInputs

InitFn ==
    /\ profile = CHOOSE p \in Profiles : ~p.exists
    /\ events = {}
    /\ subEvents = <<>>
    /\ run = [r \in Runs |-> IdleRun]
    /\ enrichLog = <<>>
    /\ gptLog = [r \in Runs |-> <<>>]
    /\ trail = [r \in Runs |-> NoTrail]
    /\ dbFaults = 0
    /\ \/ call \in FnInputs
       \/ \E n \in 0..MaxBucketLen : \E f \in [1..n -> Instants \X Instants] :
              call = Input("group", Bucket(f))

NextFn ==
    \/ ApplyChunkText \/ ApplyDedup \/ ApplyLocation \/ ApplyParse
    \/ ScrapeBegin \/ Tick \/ TimerFires \/ FetchSettles \/ TextSettles
    \/ ApplyGroup \/ ApplyDisplayDedup \/ ApplyTimeline \/ ApplyWriteLocation
    \/ ApplyDateOnly

SpecFn == InitFn /\ [][NextFn]_vars

RECURSIVE Flatten(_)
Flatten(seqs) == IF seqs = <<>> THEN <<>> ELSE Head(seqs) \o Flatten(Tail(seqs))

\* C12: the chunks of chunkText(S, N), N positive, concatenate to S; every
\* chunk but the last has length N, the last has a length in 1..N, and there
\* is no chunk only when S is empty.
C12_ChunksRebuildText ==
    Applied("chunkText") =>
        LET S == call.arg.text
            N == call.arg.maxLen
            chunks == call.out
        IN  /\ Flatten(chunks) = S
            /\ \A i \in 1..Len(chunks) :
                /\ i < Len(chunks) => Len(chunks[i]) = N
                /\ Len(chunks[i]) >= 1 /\ Len(chunks[i]) <= N
            /\ (chunks = <<>>) <=> (S = <<>>)

\* a text of five characters cut at two: two full chunks and a last short one
C12_Witness ==
    /\ Applied("chunkText")
    /\ call.arg.text = <<"a", "b", "b", "a", "b">> /\ call.arg.maxLen = 2
    /\ call.out = << <<"a", "b">>, <<"b", "a">>, <<"b">> >>

\* the fingerprint of a candidate: (speaker, startTime, endTime), each trimmed
\* and lower-cased, a missing field read as empty
Fingerprint(se) ==
    << ToLowerCase(TrimOrEmpty(se.speaker)),
       ToLowerCase(TrimOrEmpty(se.startTime)),
       ToLowerCase(TrimOrEmpty(se.endTime)) >>

\* C13: deduplicateSubEvents applied to its own result changes nothing, its
\* result is no longer than its input, and no two elements of the result have
\* the same fingerprint.
C13_DedupIdempotent ==
    Applied("dedup") =>
        /\ deduplicateSubEvents(call.out) = call.out
        /\ Len(call.out) <= Len(call.arg)
        /\ \A i \in 1..Len(call.out) : \A j \in 1..Len(call.out) :
              Fingerprint(call.out[i]) = Fingerprint(call.out[j]) => i = j

\* a list whose second and third candidates repeat the fingerprint of the
\* first in other case and spacing: one candidate is left
C13_Witness ==
    /\ Applied("dedup")
    /\ call.arg = <<cAnn, cAnnDup, cAnn>>
    /\ call.out = <<cAnn>>

\* the elements of a list at the positions of a set, in list order
RECURSIVE Pick(_, _, _)
Pick(list, keep, i) ==
    IF i > Len(list) THEN <<>>
    ELSE (IF i \in keep THEN <<list[i]>> ELSE <<>>) \o Pick(list, keep, i + 1)

\* C14: deduplicateSubEvents returns the candidates that are the first of
\* the input to carry their fingerprint, in input order, where two candidates
\* have the same fingerprint exactly when their trimmed, lower-cased
\* (speaker, startTime, endTime) are equal.
C14_FirstOfFingerprint ==
    Applied("dedup") =>
        LET L == call.arg
            first == { i \in 1..Len(L) :
                         \A j \in 1..(i - 1) : Fingerprint(L[j]) # Fingerprint(L[i]) }
        IN  call.out = Pick(L, first, 1)

\* the trimmed parent location P and the trimmed candidate location C of a
\* location input, a missing value read as empty
TrimmedP == IF call.arg.event.id = NoId \/ call.arg.event.location = NullStr
            THEN <<>> ELSE Trim(call.arg.event.location)

TrimmedC == IF call.arg.gptSub.location = NullStr
            THEN <<>> ELSE Trim(call.arg.gptSub.location)

Joined(P, C) == P \o <<" ", "-", "-", " ">> \o C

\* C15: the stored location of a candidate is "P -- C" when the trimmed
\* parent location P and the trimmed candidate location C are both non-empty,
\* the non-empty one when exactly one is, and null when both are empty or
\* missing.
C15_LocationJoin ==
    Applied("location") =>
        call.out = CASE TrimmedP # <<>> /\ TrimmedC # <<>> -> Joined(TrimmedP, TrimmedC)
                     [] TrimmedP # <<>> /\ TrimmedC = <<>> -> TrimmedP
                     [] TrimmedP = <<>> /\ TrimmedC # <<>> -> TrimmedC
                     [] OTHER -> NullStr

\* a parent location and a candidate location with blanks around them
C15_Witness ==
    /\ Applied("location")
    /\ call.arg.event.location = <<" ", "H", " ">>
    /\ call.arg.gptSub.location = <<"R", " ">>
    /\ call.out = <<"H", " ", "-", "-", " ", "R">>

\* C16 as stated: the stored location is the joined one only when both
\* locations are present and distinct; when they are equal it is the single
\* value.
C16_JoinedOnlyWhenDistinct ==
    Applied("location") =>
        /\ (call.out = Joined(TrimmedP, TrimmedC)) =>
              (TrimmedP # <<>> /\ TrimmedC # <<>> /\ TrimmedP # TrimmedC)
        /\ (TrimmedP # <<>> /\ TrimmedP = TrimmedC) => call.out = TrimmedP

\* C16, amended: the stored location is the joined one exactly when both
\* locations are present, equal or not; equal locations are stored as
\* "P -- P".
C16_JoinedWhenBothPresent ==
    Applied("location") =>
        /\ (call.out = Joined(TrimmedP, TrimmedC)) <=>
              (TrimmedP # <<>> /\ TrimmedC # <<>>)
        /\ (TrimmedP # <<>> /\ TrimmedP = TrimmedC) =>
              call.out = Joined(TrimmedP, TrimmedP)

\* parent and candidate both at "H": the row holds "H -- H"
C16_Witness ==
    /\ Applied("location")
    /\ call.arg.event.location = <<"H">>
    /\ call.arg.gptSub.location = <<"H">>
    /\ call.out = <<"H", " ", "-", "-", " ", "H">>

\* C17: an insert of handleParsedSchedule that fails removes no stored row
\* and stops nothing: the next candidate's insert is awaited next, and after
\* the last candidate the enrichment ends as a success.
C17_InsertFailureIsolated ==
    [][ \A r \in Runs :
          (run[r].pc = "hpsInsert" /\ dbFaults' # dbFaults) =>
              /\ subEvents' = subEvents
              /\ IF run[r].k < Len(run[r].parsed.subEvents)
                 THEN /\ run'[r].pc = "hpsInsert"
                      /\ run'[r].k = run[r].k + 1
                      /\ run'[r].parsed = run[r].parsed
                      /\ enrichLog' = enrichLog
                 ELSE /\ run'[r].pc \in {"lookup", "done"}
                      /\ \A n \in EntriesOf(r) :
                            enrichLog[n].status = "running" =>
                                enrichLog'[n].status = "ok"
                      /\ run'[r].pc = "done" => run'[r].result.isSuccess
      ]_vars

\* the insert of the first of two candidates failed, the second one is
\* stored, and the enrichment ended as a success
C17_Witness ==
    /\ dbFaults = 1
    /\ Len(enrichLog) = 1
    /\ enrichLog[1].status = "ok"
    /\ Len(enrichLog[1].subEvents) = 2 /\ enrichLog[1].inserted = 1
    /\ Len(subEvents) = 1
    /\ subEvents[1].speaker = <<"B">>

\* C18: an answer that wraps a JSON text J in a triple-backtick fence, with
\* or without a language tag and with or without white space before the
\* opening fence or after the closing one, parses to the value of J.
C18_FencedJsonParses ==
    (Applied("parse") /\ call.arg.rawResponse \in FencedResponses(call.arg.json)) =>
        /\ call.out.ok
        /\ call.out = JsonParse(call.arg.json)

\* C19: scrapePageContent with a timeout T > 0 aborts the request and fails
\* with a timeout error when the response, headers and body, is not complete
\* within T; a response that is not 2xx fails with a fetch error; whatever
\* the outcome, no timer is pending once the call has settled; with T = 0 or
\* no options there is no timer and the request is never aborted.
SettlesAt(arg) ==
    IF arg.headers = "200" THEN arg.headersAt + arg.bodyAfter ELSE arg.headersAt

C19_ScrapeTimeout ==
    call.op = "scrape" =>
        LET T == TimeoutOf(call.arg.options)
        IN  /\ (call.done /\ T > 0 /\ SettlesAt(call.arg) > T) =>
                   (call.out.aborted /\ call.out.result = "timeout")
            /\ (call.done /\ call.arg.headers = "404" /\ ~call.out.aborted) =>
                   call.out.result = "httpError"
            /\ call.done =>
                   /\ call.out.result \in {"html", "httpError", "networkError", "timeout"}
                   /\ call.out.timer # "pending"
            /\ T = 0 => (call.out.timer = "none" /\ ~call.out.aborted)
            /\ call.out.result = "timeout" => (T > 0 /\ call.out.aborted)

\* the timer fired while the body was being read, after headers that arrived
\* in time
C19_Witness ==
    /\ Applied("scrape")
    /\ call.arg.headers = "200"
    /\ call.arg.headersAt < TimeoutOf(call.arg.options)
    /\ call.arg.headersAt + call.arg.bodyAfter > TimeoutOf(call.arg.options)
    /\ call.out.result = "timeout"
    /\ call.out.timer = "fired"

C19_WitnessCleared ==
    /\ Applied("scrape")
    /\ call.out.timer = "cleared"
    /\ call.out.result \in {"httpError", "networkError"}

\* C20: groupOverlapping splits the sorted items of a bucket into consecutive
\* groups: the first item opens a group whose running end is its end, or its
\* start when it has no end; a later item joins the current group exactly
\* when its start and the running end are both defined and start <= running
\* end, and the running end then becomes the later of the two ends;
\* otherwise it opens a new group.  9:00-10:00, 9:30-11:00, 11:00-12:00 is
\* one group.
EndOrStart(item) == IF item.end # NoInstant THEN item.end ELSE item.start

RECURSIVE RunningEnd(_, _)
RunningEnd(flat, i) ==
    IF i = 1 THEN EndOrStart(flat[1])
    ELSE LET prev == RunningEnd(flat, i - 1)
             st == flat[i].start
             en == EndOrStart(flat[i])
         IN  IF st # NoInstant /\ prev # NoInstant /\ st <= prev
             THEN (IF en > prev THEN en ELSE prev)
             ELSE en

JoinsAt(flat, i) ==
    /\ flat[i].start # NoInstant
    /\ RunningEnd(flat, i - 1) # NoInstant
    /\ flat[i].start <= RunningEnd(flat, i - 1)

RECURSIVE GroupStarts(_, _)
GroupStarts(groups, from) ==
    IF groups = <<>> THEN {}
    ELSE {from} \cup GroupStarts(Tail(groups), from + Len(Head(groups)))

InOrder(a, b) ==
    \/ a.start # NoInstant /\ (b.start = NoInstant \/ a.start < b.start)
    \/ a.start = b.start /\ a.id < b.id

C20_GroupingRule ==
    Applied("group") =>
        LET flat == Flatten(call.out)
            n == Len(call.arg)
        IN  /\ Len(flat) = n
            /\ \A i \in 1..n : flat[i] = call.arg[flat[i].id]
            /\ \A i, j \in 1..n : i < j => InOrder(flat[i], flat[j])
            /\ \A g \in 1..Len(call.out) : call.out[g] # <<>>
            /\ \A i \in 2..n : (i \notin GroupStarts(call.out, 1)) <=> JoinsAt(flat, i)
            /\ call.arg = ExampleBucket => call.out = <<ExampleBucket>>

C20_Witness ==
    /\ Applied("group")
    /\ call.arg = ExampleBucket
    /\ call.out = <<ExampleBucket>>

\* an unsorted bucket: two touching items join, one without a start is alone
C20_WitnessSplit ==
    /\ Applied("group")
    /\ call.arg = << TimelineItem(1, NoInstant, 2), TimelineItem(2, 1, 2), TimelineItem(3, 0, 1) >>
    /\ call.out = << <<TimelineItem(3, 0, 1), TimelineItem(2, 1, 2)>>, <<TimelineItem(1, NoInstant, 2)>> >>

\* the fingerprint of a displayed sub-event as the tuple of its parts
FingerprintParts(s) ==
    << DateKey(s), LowerTrim(s.subEventName), LowerTrim(s.speaker),
       LowerTrim(s.parentEventTitle), LowerTrim(s.parentLocation),
       IF s.start # NoInstant THEN NumText(s.start) ELSE <<"nostart">>,
       IF s.end # NoInstant THEN NumText(s.end) ELSE <<"noend">> >>

FirstOfParts(list) ==
    { i \in 1..Len(list) :
        \A j \in 1..(i - 1) : FingerprintParts(list[j]) # FingerprintParts(list[i]) }

\* C22: the display-side deduplicateSubEvents keeps, in input order, exactly
\* the first item of each fingerprint (day or "unknown", lower-trimmed name,
\* speaker, parent title and parent location, start or "nostart", end or
\* "noend"); items that differ only in id or parent link collapse to the
\* earlier one; applying it twice equals applying it once.
C22_DisplayFirstOfFingerprint ==
    Applied("displayDedup") =>
        /\ call.out = Pick(call.arg, FirstOfParts(call.arg), 1)
        /\ displayDeduplicateSubEvents(call.out) = call.out

\* where an item is rendered: bucket, group, position in the group
PlacesOf(timeline, s) ==
    { << b, g, p >> \in (1..MaxListLen + 1) \X (1..MaxListLen + 1) \X (1..MaxListLen + 1) :
        /\ b <= Len(timeline)
        /\ g <= Len(timeline[b].groups)
        /\ p <= Len(timeline[b].groups[g])
        /\ timeline[b].groups[g][p] = s }

Rendered(timeline) ==
    { << b, g, p >> \in (1..MaxListLen + 1) \X (1..MaxListLen + 1) \X (1..MaxListLen + 1) :
        /\ b <= Len(timeline)
        /\ g <= Len(timeline[b].groups)
        /\ p <= Len(timeline[b].groups[g]) }

\* C21: after deduplication the timeline drops and repeats nothing: every
\* deduplicated sub-event is in exactly one date bucket, the bucket of its
\* parent date's day or "unknown" exactly when it has no parent date, and in
\* exactly one overlap group of that bucket.
C21_NothingDroppedOrRepeated ==
    Applied("timeline") =>
        LET deduped == displayDeduplicateSubEvents(call.arg)
        IN  /\ \A i \in 1..Len(deduped) :
                  /\ Cardinality(PlacesOf(call.out, deduped[i])) = 1
                  /\ \A pl \in PlacesOf(call.out, deduped[i]) :
                        /\ call.out[pl[1]].date = DateKey(deduped[i])
                        /\ (call.out[pl[1]].date = <<"unknown">>)
                               <=> (deduped[i].parentDate = NoInstant)
            /\ Cardinality(Rendered(call.out)) = Len(deduped)
            /\ \A b, c \in 1..Len(call.out) : b # c => call.out[b].date # call.out[c].date

\* an item without a date, and two items of one day that touch
C21_Witness ==
    /\ Applied("timeline")
    /\ call.arg = << DisplayItems[6], DisplayItems[9], DisplayItems[1] >>
    /\ call.out = << [date |-> <<"0">>,
                      groups |-> << << DisplayItems[1], DisplayItems[9] >> >>],
                     [date |-> <<"unknown">>,
                      groups |-> << << DisplayItems[6] >> >>] >>

\* the last enrichment invoked for the provider event with this id, 0 if none
LastEntryFor(id) ==
    LET ns == { n \in 1..Len(enrichLog) : enrichLog[n].calendarEventId = id }
    IN  IF ns = {} THEN 0 ELSE CHOOSE n \in ns : \A m \in ns : m <= n

\* run q is about to write the item it holds, the item has link L, the event's
\* row holds L, and the last enrichment of the event, in an earlier run and
\* for L, failed
FailedAndSameLink(q) ==
    /\ run[q].pc = "upsert"
    /\ LET item == run[q].items[run[q].idx]
           n == LastEntryFor(item.id)
       IN  /\ LinkOf(item) # NULL
           /\ RowsFor(events, item.id) # {}
           /\ \A e \in RowsFor(events, item.id) : e.externalLink = LinkOf(item)
           /\ n # 0
           /\ enrichLog[n].status = "failed"
           /\ enrichLog[n].link = LinkOf(item)
           /\ enrichLog[n].run < q

\* C23: a failed enrichment is not retried while the link stays the same: when
\* a run stored link L on an event and the enrichment of that run failed, a
\* later run that gets the event with link L does not invoke enrichment and
\* leaves the sub-events as they are.
C23_FailedNotRetried ==
    [][ \A q \in Runs :
          (FailedAndSameLink(q) /\ run'[q] # run[q]) =>
              /\ enrichLog' = enrichLog
              /\ subEvents' = subEvents
              /\ run'[q].pc \in {"lookup", "done"} ]_vars

\* the first run's enrichment of event 1 for L1 failed, the second run got the
\* same link and is over without an enrichment and without sub-events
C23_Witness ==
    /\ run[2].pc = "done" /\ run[2].result.isSuccess
    /\ \E n \in EntriesFor({1}, 1) :
          enrichLog[n].status = "failed" /\ enrichLog[n].link = "L1"
    /\ \E j \in ValidItems(run[2].items) :
          run[2].items[j].id = 1 /\ LinkOf(run[2].items[j]) = "L1"
    /\ \A e \in RowsFor(events, 1) : e.externalLink = "L1"
    /\ RowsFor(events, 1) # {}
    /\ EntriesFor({2}, 1) = {}
    /\ subEvents = <<>>

\* the locations an enrichment can write onto an event
ParsedLocations == { Trim(s.location) : s \in { t \in Schedules : HasLocation(t) } }

\* run q is about to write the item it holds; the event's row holds the item's
\* link and a parsed location, and the last enrichment of the event, in an
\* earlier run and for the same link, succeeded
EnrichedLocationStored(q) ==
    /\ run[q].pc = "upsert"
    /\ LET item == run[q].items[run[q].idx]
           n == LastEntryFor(item.id)
       IN  /\ RowsFor(events, item.id) # {}
           /\ \A e \in RowsFor(events, item.id) :
                 e.externalLink = LinkOf(item) /\ e.location \in ParsedLocations
           /\ n # 0
           /\ enrichLog[n].status = "ok"
           /\ enrichLog[n].link = LinkOf(item)
           /\ enrichLog[n].run < q

LastOfRun(log, r) ==
    LET ns == { n \in 1..Len(log) : log[n].run = r }
    IN  log[CHOOSE n \in ns : \A m \in ns : m <= n]

AllFailed(calls) == calls # <<>> /\ \A i \in 1..Len(calls) : ~calls[i].ok

\* C25: when every extraction call fails, parseEventDetailsAction answers by
\* input size: for a text at or below the threshold the failed call makes it
\* return isSuccess = false with nothing written; for a text above the
\* threshold it returns isSuccess = true although every chunk failed, with no
\* sub-event inserted and the parent location unchanged.
C25_TotalFailureBySize ==
    [][ \A r \in Runs :
          /\ ( /\ run[r].pc = "gpt" /\ SingleChunk(run[r].page)
               /\ gptLog'[r] # gptLog[r] /\ AllFailed(gptLog'[r]) ) =>
                 /\ events' = events /\ subEvents' = subEvents
                 /\ LastOfRun(enrichLog', r).status = "failed"
                 /\ LastOfRun(enrichLog', r).inserted = 0
          /\ ( /\ run[r].pc = "gpt" /\ ~SingleChunk(run[r].page)
               /\ gptLog'[r] # gptLog[r] /\ AllFailed(gptLog'[r]) ) =>
                 /\ events' = events /\ subEvents' = subEvents
                 /\ LastOfRun(enrichLog', r).status = "running"
                 /\ run'[r].pc \in {"gpt", "hpsGet"}
                 /\ run'[r].pc = "hpsGet" => run'[r].parsed = NoSchedule
          /\ ( /\ run[r].pc = "hpsGet" /\ ~SingleChunk(run[r].page)
               /\ AllFailed(gptLog[r]) /\ run'[r] # run[r] ) =>
                 /\ events' = events /\ subEvents' = subEvents
                 /\ LastOfRun(enrichLog', r).status = "ok"
                 /\ LastOfRun(enrichLog', r).inserted = 0
                 /\ run'[r].pc \in {"lookup", "done"} ]_vars

\* a page of two chunks, both calls failed, and the enrichment succeeded
\* without a row written
C25_Witness ==
    \E r \in Runs :
        /\ Len(gptLog[r]) = 2 /\ AllFailed(gptLog[r])
        /\ ~SingleChunk(gptLog[r][1].len)
        /\ run[r].pc \in {"lookup", "done"}
        /\ Len(enrichLog) = 1
        /\ LastOfRun(enrichLog, r).status = "ok"
        /\ subEvents = <<>>
        /\ LastOfRun(enrichLog, r).inserted = 0

\* a page of one chunk, the call failed, and the enrichment failed
C25_WitnessSingle ==
    \E r \in Runs :
        /\ Len(gptLog[r]) = 1 /\ AllFailed(gptLog[r])
        /\ SingleChunk(gptLog[r][1].len)
        /\ run[r].pc \in {"lookup", "done"}
        /\ Len(enrichLog) = 1
        /\ LastOfRun(enrichLog, r).status = "failed"
        /\ subEvents = <<>>
        /\ LastOfRun(enrichLog, r).inserted = 0

\* the stored location of a candidate joined with parent location P
JoinedWith(P, gptSub) ==
    LET C == IF gptSub.location = NullStr THEN <<>> ELSE Trim(gptSub.location)
    IN  CASE P # <<>> /\ C # <<>> -> Joined(P, C)
          [] P # <<>> /\ C = <<>> -> P
          [] P = <<>> /\ C # <<>> -> C
          [] OTHER -> NullStr

\* C26: the parent location handleParsedSchedule joins into the sub-events is
\* the one the event held before the parsed location was written: with a
\* parsed location that differs from the stored one, the inserted sub-events
\* carry the old parent location while the event holds the new one.
C26_JoinUsesOldLocation ==
    [][ \A r \in Runs :
          ( /\ run[r].pc = "hpsInsert" /\ HasLocation(run[r].parsed)
            /\ dbFaults = 0 /\ Len(subEvents') = Len(subEvents) + 1 ) =>
              LET item == run[r].items[run[r].idx]
                  old == IF IsText(item.location) THEN Trim(item.location) ELSE <<>>
                  new == Trim(run[r].parsed.location)
                  gptSub == run[r].parsed.subEvents[run[r].k]
                  row == subEvents'[Len(subEvents')]
              IN  /\ row.eventId = run[r].eventId
                  /\ row.location = JoinedWith(old, gptSub)
                  /\ new # old => row.location # JoinedWith(new, gptSub)
                  /\ \A e \in events' : e.id = run[r].eventId => e.location = new
      ]_vars

\* event 1 had location "H", the schedule said "V": the event holds "V" and
\* the session of speaker A is stored at "H -- R"
C26_Witness ==
    /\ dbFaults = 0
    /\ \E e \in RowsFor(events, 1) : e.location = <<"V">>
    /\ \E i \in 1..Len(subEvents) :
          /\ subEvents[i].speaker = <<"A">>
          /\ subEvents[i].location = <<"H", " ", "-", "-", " ", "R">>
          /\ \E e \in RowsFor(events, 1) : e.id = subEvents[i].eventId

\* the location chunk 1 gives: its trimmed location when the call succeeded
\* and reported one, else empty
FirstChunkLocation(calls) ==
    IF calls[1].ok /\ IsText(calls[1].schedule.location)
    THEN Trim(calls[1].schedule.location) ELSE <<>>

\* C27: on a page of several chunks the location adopted is decided by chunk
\* 1 alone: the trimmed location of chunk 1 when chunk 1 was extracted and
\* reported a non-empty location; otherwise none is adopted and the event's
\* location is left as it is, whatever later chunks report.
C27_FirstChunkDecidesLocation ==
    [][ \A r \in Runs :
          /\ ( /\ run[r].pc = "gpt" /\ ~SingleChunk(run[r].page)
               /\ run'[r].pc = "hpsGet" ) =>
                 TrimOrEmpty(run'[r].parsed.location) = FirstChunkLocation(gptLog'[r])
          /\ ( /\ run[r].pc \in {"hpsGet", "hpsUpdate", "hpsInsert"}
               /\ ~SingleChunk(run[r].page) ) =>
                 /\ FirstChunkLocation(gptLog[r]) = <<>> => events' = events
                 /\ \A e \in events' :
                       e \notin events =>
                          e.id = run[r].eventId /\ e.location = FirstChunkLocation(gptLog[r])
                 /\ ( run[r].pc = "hpsGet" /\ run'[r] # run[r]
                      /\ FirstChunkLocation(gptLog[r]) # <<>> ) => run'[r].pc = "hpsUpdate"
                 /\ (run[r].pc = "hpsUpdate" /\ dbFaults' = dbFaults) =>
                       \A e \in events' :
                          e.id = run[r].eventId => e.location = FirstChunkLocation(gptLog[r])
      ]_vars

\* two chunks: the first reports no location, the second reports one; the
\* enrichment is over and event 1 still holds the provider's location
C27_Witness ==
    \E r \in Runs :
        /\ Len(gptLog[r]) = 2 /\ ~SingleChunk(gptLog[r][1].len)
        /\ gptLog[r][1].ok /\ gptLog[r][1].schedule.location = NullStr
        /\ gptLog[r][2].ok /\ gptLog[r][2].schedule.location = <<" ", "V">>
        /\ run[r].pc \in {"lookup", "done"}
        /\ Len(enrichLog) = 1 /\ enrichLog[1].status = "ok"
        /\ enrichLog[1].calendarEventId = 1
        /\ \A e \in RowsFor(events, 1) : e.location = <<"H">>
        /\ RowsFor(events, 1) # {}

\* two chunks: the first reports a location, which the event now holds
C27_WitnessAdopted ==
    \E r \in Runs :
        /\ Len(gptLog[r]) = 2 /\ ~SingleChunk(gptLog[r][1].len)
        /\ gptLog[r][1].ok /\ gptLog[r][1].schedule.location = <<" ", "V">>
        /\ ~gptLog[r][2].ok
        /\ run[r].pc \in {"lookup", "done"}
        /\ Len(enrichLog) = 1 /\ enrichLog[1].status = "ok"
        /\ \E e \in RowsFor(events, 1) : e.location = <<"V">>

\* the parsed location of a writeLocation input is not missing, null or blank
ParsedLocationGiven ==
    call.arg.parsed.location # NullStr /\ Trim(call.arg.parsed.location) # <<>>

EventFields == { "id", "userId", "calendarEventId", "eventTitle", "startTime",
                 "location", "externalLink", "updatedAt" }

\* C28 as stated: handleParsedSchedule writes the trimmed parsed location onto
\* the event exactly when it is non-empty after trimming, leaves the location
\* as it is when it is missing, null or blank, and modifies no other field of
\* the event.
C28_OnlyLocationModified ==
    (Applied("writeLocation") /\ call.arg.dbOk) =>
        /\ ParsedLocationGiven => call.out.location = Trim(call.arg.parsed.location)
        /\ ~ParsedLocationGiven => call.out.location = call.arg.event.location
        /\ \A f \in EventFields \ {"location"} : call.out[f] = call.arg.event[f]

\* C28, amended: as stated, but the update renews the event's updatedAt; no
\* field other than location and updatedAt is modified, and nothing is
\* modified when the parsed location is missing, null or blank or when the
\* update fails.
C28_OnlyLocationAndStampModified ==
    Applied("writeLocation") =>
        /\ (ParsedLocationGiven /\ call.arg.dbOk) =>
              /\ call.out.location = Trim(call.arg.parsed.location)
              /\ call.out.updatedAt = call.arg.now
        /\ ~(ParsedLocationGiven /\ call.arg.dbOk) => call.out = call.arg.event
        /\ \A f \in EventFields \ {"location", "updatedAt"} :
              call.out[f] = call.arg.event[f]

\* "R " written over "H": the row holds "R" and a new updatedAt
C28_Witness ==
    /\ Applied("writeLocation") /\ call.arg.dbOk
    /\ call.arg.event.location = <<"H">>
    /\ call.arg.parsed.location = <<"R", " ">>
    /\ call.out.location = <<"R">>
    /\ call.out.updatedAt # call.arg.event.updatedAt

\* a blank parsed location: the row is as it was
C28_WitnessBlank ==
    /\ Applied("writeLocation") /\ call.arg.dbOk
    /\ call.arg.event.location = <<"H">>
    /\ call.arg.parsed.location = <<" ">>
    /\ call.out = call.arg.event

\* the items of a bucket in the order groupOverlapping leaves them
OrderOf(groups) == Flatten(groups)

SameStart(a, b) == a.start = b.start

\* C29 as stated: groupOverlapping orders the items of a bucket by start, the
\* items without a start first, items that compare equal in their original
\* order.
C29_NoStartFirst ==
    Applied("group") =>
        LET flat == OrderOf(call.out)
        IN  \A i, j \in 1..Len(flat) :
               i < j =>
                  \/ flat[i].start = NoInstant /\ flat[j].start # NoInstant
                  \/ /\ flat[i].start # NoInstant /\ flat[j].start # NoInstant
                     /\ flat[i].start < flat[j].start
                  \/ SameStart(flat[i], flat[j]) /\ flat[i].id < flat[j].id

\* C29, amended: groupOverlapping orders the items of a bucket by start, the
\* items without a start last, items that compare equal in their original
\* order.
C29_NoStartLast ==
    Applied("group") =>
        LET flat == OrderOf(call.out)
        IN  /\ Len(flat) = Len(call.arg)
            /\ \A i, j \in 1..Len(flat) :
                  i < j =>
                     \/ flat[i].start # NoInstant /\ flat[j].start = NoInstant
                     \/ /\ flat[i].start # NoInstant /\ flat[j].start # NoInstant
                        /\ flat[i].start < flat[j].start
                     \/ SameStart(flat[i], flat[j]) /\ flat[i].id < flat[j].id

\* an item without a start given first, then two items with the same start
C29_Witness ==
    /\ Applied("group")
    /\ call.arg = << TimelineItem(1, NoInstant, 2), TimelineItem(2, 1, 2),
                     TimelineItem(3, 1, 1) >>
    /\ OrderOf(call.out) = << TimelineItem(2, 1, 2), TimelineItem(3, 1, 1),
                              TimelineItem(1, NoInstant, 2) >>

\* the calendar day of a timestamp on the server's clock
LocalDay(hours, offset) == (hours + offset) \div HoursPerDay

\* C30: the stored start of an event is the calendar day of the provider's
\* start: for a timestamp its local calendar date, so that two timestamps of
\* one local day are stored alike, and for a bare date that date; storing it
\* never shifts the day.
C30_StoredDayIsLocalDay ==
    Applied("dateOnly") =>
        IF call.arg.start.kind = "dateTime"
        THEN call.out = LocalDay(call.arg.start.v, call.arg.offset)
        ELSE call.out = call.arg.start.v

====
